---- MODULE Spec2Model ----
(***************************************************************************)
(* Verification model of TSTL: the hashed associative containers (HashMap / *)
(* HashMultiMap and, with mapped value = key, HashSet / HashMultiSet), a    *)
(* doubly linked element list combined with a hash bucket array; the Deque  *)
(* and its iterators; the algorithms over ranges.                           *)
(***************************************************************************)
EXTENDS Integers, Sequences, FiniteSets, TLC

\* ------------------------------------------------------------------ bounds
MaxKey == 2          \* keys are 0..MaxKey
MaxVal == 2          \* mapped values are 1..MaxVal
MaxSize == 3         \* the containers of a call never hold more elements than this
MaxArg == 3          \* largest n given to rehash(n) / reserve(n)
MaxRange == 2        \* longest range given to insert(first,last), push, a constructor
MaxBuckets == 8      \* no call is made that would allocate more buckets than this

Keys == 0 .. MaxKey
Vals == 1 .. MaxVal

\* The mapped values given to a container of kind k. The multi containers
\* never read a mapped value (HashMultiSet has none), so one value stands
\* for all of them.
ValsOf(k) == IF k = "unique" THEN Vals ELSE {1}

\* A is the container the calls are made on; B is the other container of a
\* merge or swap call, constructed for that call.
A == "a"
B == "b"
Maps == {A, B}

\* ------------------------------------------------------- _Hash constants
MIN_SIZE == 2
RATIO == 2
MAX_RATIO == 1

\* hash(key) of the functional module: any fixed function of the key
Hash(key) == 3 * key + 1

VARIABLES
    kind,    \* "unique" (HashMap/HashSet), "multi" (HashMultiMap/HashMultiSet),
             \* "deque" (Deque) or "algorithm" (an algorithm over a range of a
             \* Deque)
    data,    \* data[c]: the element list data_ of container c
    hb,      \* hb[c]: the bucket engine hash_buckets_ of container c
    deq,     \* deq[c]: the Deque c
    its,     \* the iterators the program holds
    last     \* the last call and what it returned

vars == <<kind, data, hb, deq, its, last>>

\* ------------------------------------------------------------- iterators
\* A list iterator is a node of a list or the end sentinel of a list; gid is
\* the list it belongs to (ListIterator.gid_).
EndIt(g) == [t |-> "end", gid |-> g, id |-> 0]
NodeIt(g, id) == [t |-> "node", gid |-> g, id |-> id]
NullIt == [t |-> "null", gid |-> 0, id |-> 0]

Entry(id, k, v) == [id |-> id, first |-> k, second |-> v]
Handle(e) == [id |-> e.id, first |-> e.first]

\* ---------------------------------------------------------- seq helpers
RECURSIVE Flatten(_)
Flatten(ss) == IF ss = <<>> THEN <<>> ELSE Head(ss) \o Flatten(Tail(ss))

RemoveAt(s, i) == SubSeq(s, 1, i - 1) \o SubSeq(s, i + 1, Len(s))

IdsOf(s) == {s[i].id : i \in 1 .. Len(s)}

CeilDiv(x, y) == (x + y - 1) \div y

\* smallest node identity not in use
FreshId(used) == CHOOSE i \in 1 .. (Cardinality(used) + 1) :
                     i \notin used /\ \A j \in 1 .. (i - 1) : j \in used

\* ------------------------------------------------------------ ListContainer
\* d = [gid, items, beginNull]; items are the nodes from begin_ to end_,
\* beginNull says that begin_ holds null.
ListNew(g) == [gid |-> g, items |-> <<>>, beginNull |-> FALSE]

ListSize(d) == Len(d.items)

ListEnd(d) == EndIt(d.gid)

ListClear(d) == [d EXCEPT !.items = <<>>, !.beginNull = FALSE]

\* position pos in 1 .. Len+1 (Len+1 is end()); es the created nodes
List_Insert_by_range(d, pos, es) ==
    [d EXCEPT !.items = SubSeq(d.items, 1, pos - 1) \o es
                            \o SubSeq(d.items, pos, Len(d.items)),
              !.beginNull = IF pos = 1 /\ ~d.beginNull /\ es = <<>> THEN TRUE
                            ELSE d.beginNull]

\* erases the nodes at positions i .. j-1
List_Erase_by_range(d, i, j) ==
    [d EXCEPT !.items = SubSeq(d.items, 1, i - 1) \o SubSeq(d.items, j, Len(d.items))]

\* --------------------------------------------------------- _HashBuckets
\* h = [map_end, buckets, item_size, rehashes]; map_end is the list whose end
\* sentinel map_.end() returns, map_ being the map given to the constructor;
\* rehashes counts the bucket arrays allocated by rehash during the current call
HB_New(g) ==
    [map_end |-> g, buckets |-> [i \in 1 .. MIN_SIZE |-> <<>>], item_size |-> 0,
     rehashes |-> 0]

HB_size(h) == Len(h.buckets)

hash_index(h, key) == (Hash(key) % Len(h.buckets)) + 1

RECURSIVE HB_place(_, _)
HB_place(bs, hs) ==
    IF hs = <<>> THEN bs
    ELSE LET i == (Hash(Head(hs).first) % Len(bs)) + 1
         IN HB_place([bs EXCEPT ![i] = Append(@, Head(hs))], Tail(hs))

HB_rehash(h, n) ==
    LET size == IF n < MIN_SIZE THEN MIN_SIZE ELSE n
    IN [h EXCEPT !.buckets = HB_place([i \in 1 .. size |-> <<>>], Flatten(h.buckets)),
                 !.rehashes = @ + 1]

\* HB_insert without the growth trigger
HB_insert_NoGrowth(h, e) ==
    [h EXCEPT !.buckets[hash_index(h, e.first)] = Append(@, Handle(e)),
              !.item_size = @ + 1]

HB_insert(h, e) ==
    LET h1 == IF h.item_size + 1 > HB_size(h) * MAX_RATIO
              THEN HB_rehash(h, (h.item_size + 1) * RATIO)
              ELSE h
    IN [h1 EXCEPT !.buckets[hash_index(h1, e.first)] = Append(@, Handle(e)),
                  !.item_size = @ + 1]

HB_erase(h, e) ==
    LET b == hash_index(h, e.first)
        hit == {i \in 1 .. Len(h.buckets[b]) : h.buckets[b][i].id = e.id}
    IN IF hit = {} THEN h
       ELSE LET i == CHOOSE x \in hit : \A y \in hit : x <= y
            IN [h EXCEPT !.buckets[b] = RemoveAt(@, i), !.item_size = @ - 1]

HB_clear(h) == [h EXCEPT !.buckets = [i \in 1 .. MIN_SIZE |-> <<>>], !.item_size = 0]

\* _MapHashBuckets.find / _SetHashBuckets.find: the first handle of the key's
\* bucket with an equal key, or map_.end()
HB_find(h, listGid, key) ==
    LET b == h.buckets[hash_index(h, key)]
        hit == {i \in 1 .. Len(b) : b[i].first = key}
    IN IF hit = {} THEN EndIt(h.map_end)
       ELSE NodeIt(listGid, b[CHOOSE x \in hit : \A y \in hit : x <= y].id)

\* ---------------------------------------------------- container helpers
RECURSIVE MakeEntries(_, _)
MakeEntries(pairs, used) ==
    IF pairs = <<>> THEN <<>>
    ELSE LET id == FreshId(used)
         IN <<Entry(id, Head(pairs)[1], Head(pairs)[2])>>
                \o MakeEntries(Tail(pairs), used \cup {id})

UsedIds(d, h) == IdsOf(d.items) \cup IdsOf(Flatten(h.buckets))

PosOf(d, id) == CHOOSE i \in 1 .. Len(d.items) : d.items[i].id = id

\* iterator to position pos of list d
ItAt(d, pos) == IF pos > Len(d.items) THEN EndIt(d.gid) ELSE NodeIt(d.gid, d.items[pos].id)

\* find / has of the hashed containers
C_find(d, h, key) == HB_find(h, d.gid, key)
C_has(d, h, key) == C_find(d, h, key) # ListEnd(d)

\* _Handle_insert registering only the first element of the range
Handle_insert_First(h, es) == IF es = <<>> THEN h ELSE HB_insert(h, Head(es))

RECURSIVE Handle_insert(_, _)
Handle_insert(h, es) ==
    IF es = <<>> THEN h ELSE Handle_insert(HB_insert(h, Head(es)), Tail(es))

\* _Handle_erase leaving the handles in their buckets
Handle_erase_None(h, es) == h

RECURSIVE Handle_erase(_, _)
Handle_erase(h, es) ==
    IF es = <<>> THEN h ELSE Handle_erase(HB_erase(h, Head(es)), Tail(es))

\* what a call leaves (d, h) and returns: an iterator, a count, an error
Result(d, h, it, n, err) == [d |-> d, h |-> h, it |-> it, n |-> n, err |-> err]

\* ------------------------------------------------------ HashMap / HashSet
\* _Insert_by_pair assigning the mapped value of a stored key
U_Insert_by_pair_Assign(d, h, k, v) ==
    LET it == C_find(d, h, k)
    IN IF it # ListEnd(d)
       THEN Result([d EXCEPT !.items = [i \in 1 .. Len(d.items) |->
                                           IF d.items[i].id = it.id
                                           THEN [d.items[i] EXCEPT !.second = v]
                                           ELSE d.items[i]]],
                   h, it, 0, "none")
       ELSE LET e == Entry(FreshId(UsedIds(d, h)), k, v)
                d1 == List_Insert_by_range(d, Len(d.items) + 1, <<e>>)
            IN Result(d1, HB_insert(h, e), NodeIt(d.gid, e.id), 1, "none")

U_Insert_by_pair(d, h, k, v) ==
    LET it == C_find(d, h, k)
    IN IF it # ListEnd(d) THEN Result(d, h, it, 0, "none")
       ELSE LET e == Entry(FreshId(UsedIds(d, h)), k, v)
                d1 == List_Insert_by_range(d, Len(d.items) + 1, <<e>>)
            IN Result(d1, HB_insert(h, e), NodeIt(d.gid, e.id), 1, "none")

U_Insert_by_hint(d, h, pos, k, v) ==
    IF C_has(d, h, k) THEN Result(d, h, ListEnd(d), 0, "none")
    ELSE LET e == Entry(FreshId(UsedIds(d, h)), k, v)
             d1 == List_Insert_by_range(d, pos, <<e>>)
         IN Result(d1, HB_insert(h, e), NodeIt(d.gid, e.id), 1, "none")

\* _Insert_by_range sizing the bucket array for the new elements only
U_Insert_by_range_NewOnly(d, h, pairs) ==
    LET new == SelectSeq(pairs, LAMBDA p : ~C_has(d, h, p[1]))
        es == MakeEntries(new, UsedIds(d, h))
        size == Len(es)
        d1 == IF es = <<>> THEN d ELSE List_Insert_by_range(d, Len(d.items) + 1, es)
        h1 == IF ListSize(d1) + size > HB_size(h) * MAX_RATIO
              THEN HB_rehash(h, size)
              ELSE h
    IN Result(d1, Handle_insert(h1, es), NullIt, size, "none")

U_Insert_by_range(d, h, pairs) ==
    LET new == SelectSeq(pairs, LAMBDA p : ~C_has(d, h, p[1]))
        es == MakeEntries(new, UsedIds(d, h))
        size == Len(es)
        d1 == IF es = <<>> THEN d ELSE List_Insert_by_range(d, Len(d.items) + 1, es)
        h1 == IF ListSize(d1) + size > HB_size(h) * MAX_RATIO
              THEN HB_rehash(h, (ListSize(d1) + size) * RATIO)
              ELSE h
    IN Result(d1, Handle_insert(h1, es), NullIt, size, "none")

\* ---------------------------------------------- HashMultiMap / HashMultiSet
M_Insert_by_pair(d, h, k, v) ==
    LET e == Entry(FreshId(UsedIds(d, h)), k, v)
        d1 == List_Insert_by_range(d, Len(d.items) + 1, <<e>>)
    IN Result(d1, HB_insert(h, e), NodeIt(d.gid, e.id), 1, "none")

M_Insert_by_hint(d, h, pos, k, v) ==
    LET e == Entry(FreshId(UsedIds(d, h)), k, v)
        d1 == List_Insert_by_range(d, pos, <<e>>)
    IN Result(d1, HB_insert(h, e), NodeIt(d.gid, e.id), 1, "none")

\* an empty range makes ListContainer._Insert_by_range return null, on which
\* _Handle_insert fails
M_Insert_by_range(d, h, pairs) ==
    LET es == MakeEntries(pairs, UsedIds(d, h))
        d1 == List_Insert_by_range(d, Len(d.items) + 1, es)
        h1 == IF ListSize(d1) > h.item_size * MAX_RATIO
              THEN HB_rehash(h, ListSize(d1) * RATIO)
              ELSE h
    IN IF es = <<>> THEN Result(d1, h1, NullIt, 0, "TypeError")
       ELSE Result(d1, Handle_insert(h1, es), NullIt, Len(es), "none")

\* ------------------------------------------- MapContainer / SetContainer
\* erase(first, last) with own iterators at positions i <= j
C_Erase_by_range(d, h, i, j) ==
    LET es == SubSeq(d.items, i, j - 1)
        d1 == List_Erase_by_range(d, i, j)
    IN Result(d1, Handle_erase(h, es), ItAt(d1, i), Len(es), "none")

\* erase(key) raising OutOfRange for a key that is not stored
C_Erase_by_key_Throw(d, h, key) ==
    LET it == C_find(d, h, key)
    IN IF it = ListEnd(d) THEN Result(d, h, NullIt, 0, "OutOfRange")
       ELSE IF it.gid # d.gid THEN Result(d, h, NullIt, 0, "InvalidArgument")
       ELSE LET i == PosOf(d, it.id)
                r == C_Erase_by_range(d, h, i, i + 1)
            IN Result(r.d, r.h, NullIt, 1, "none")

\* erase(key); ListContainer._Erase_by_range refuses an iterator of another list
C_Erase_by_key(d, h, key) ==
    LET it == C_find(d, h, key)
    IN IF it = ListEnd(d) THEN Result(d, h, NullIt, 0, "none")
       ELSE IF it.gid # d.gid THEN Result(d, h, NullIt, 0, "InvalidArgument")
       ELSE LET i == PosOf(d, it.id)
                r == C_Erase_by_range(d, h, i, i + 1)
            IN Result(r.d, r.h, NullIt, 1, "none")

\* what a call on two containers leaves
Both(d, h, sd, sh, err) == [d |-> d, h |-> h, sd |-> sd, sh |-> sh, err |-> err]

\* merge walking the source without moving anything
U_merge_Skip(d, h, sd, sh, p) == Both(d, h, sd, sh, "none")

\* UniqueMap.merge / UniqueSet.merge, from position p of the source list
RECURSIVE U_merge(_, _, _, _, _)
U_merge(d, h, sd, sh, p) ==
    IF p > Len(sd.items) THEN Both(d, h, sd, sh, "none")
    ELSE LET e == sd.items[p]
         IN IF ~C_has(d, h, e.first)
            THEN LET r == U_Insert_by_pair(d, h, e.first, e.second)
                     s == C_Erase_by_range(sd, sh, p, p + 1)
                 IN U_merge(r.d, r.h, s.d, s.h, p)
            ELSE U_merge(d, h, sd, sh, p + 1)

PairsOf(items) == [i \in 1 .. Len(items) |-> <<items[i].first, items[i].second>>]

\* MultiMap.merge / MultiSet.merge
M_merge(d, h, sd, sh) ==
    IF sd.beginNull THEN Both(d, h, sd, sh, "TypeError")
    ELSE LET r == M_Insert_by_range(d, h, PairsOf(sd.items))
         IN IF r.err # "none" THEN Both(r.d, r.h, sd, sh, r.err)
            ELSE Both(r.d, r.h, ListClear(sd), HB_clear(sh), "none")

\* rehash(n) of the containers
C_rehash(h, n) == IF n <= HB_size(h) THEN h ELSE HB_rehash(h, n)

\* new HashMap(items) etc.; without items the default constructor
Construct(k, g, pairs) ==
    IF pairs = <<>> THEN Result(ListNew(g), HB_New(g), NullIt, 0, "none")
    ELSE LET h == C_rehash(HB_New(g), Len(pairs) * RATIO)
         IN IF k = "unique" THEN U_Insert_by_range(ListNew(g), h, pairs)
            ELSE M_Insert_by_range(ListNew(g), h, pairs)

\* ------------------------------------------------------ canonical naming
\* Node identities and list identities are only ever compared for equality,
\* so every state names them canonically: a node by its position in its list,
\* the list of A by 1, the list of B by 2, the list of a container that is no
\* longer in scope by 3.
NewId(d, h, id) ==
    IF id \in IdsOf(d.items) THEN PosOf(d, id)
    ELSE Len(d.items)
           + Cardinality({x \in IdsOf(Flatten(h.buckets)) \ IdsOf(d.items) : x <= id})

NormList(d) ==
    [d EXCEPT !.items = [i \in 1 .. Len(d.items) |-> [d.items[i] EXCEPT !.id = i]]]

NormBuckets(d, h) ==
    [h EXCEPT !.buckets =
        [b \in 1 .. Len(h.buckets) |->
            [j \in 1 .. Len(h.buckets[b]) |->
                [h.buckets[b][j] EXCEPT !.id = NewId(d, h, @)]]],
              !.rehashes = 0]

NoList == [gid |-> 0, items |-> <<>>, beginNull |-> FALSE]
NoBuckets == [map_end |-> 0, buckets |-> <<>>, item_size |-> 0, rehashes |-> 0]

\* container A once B is out of scope
AloneList(d) == [NormList(d) EXCEPT !.gid = 1]
AloneBuckets(d, h) == [NormBuckets(d, h) EXCEPT !.map_end = IF @ = d.gid THEN 1 ELSE 3]

\* ------------------------------------------------------------ observers
Present(c) == data[c].gid # 0
size(c) == ListSize(data[c])
bucket_count(c) == HB_size(hb[c])
end(c) == ListEnd(data[c])
find(c, key) == C_find(data[c], hb[c], key)

\* what kind of position an iterator returned by a container with list d is
ItKind(d, it) ==
    IF it.t = "end" THEN (IF it.gid = d.gid THEN "end" ELSE "foreign end") ELSE it.t

\* the record of a call: the kind of iterator (it) or the count (n) returned,
\* the error raised, the rehashes of the bucket array it made
Call(op, r) ==
    [op |-> op, it |-> ItKind(r.d, r.it), n |-> r.n, err |-> r.err,
     rehashes |-> r.h.rehashes]

Quiet(op) == [op |-> op, it |-> "null", n |-> 0, err |-> "none", rehashes |-> 0]

\* the ranges given to insert(first, last) and to the constructors: up to
\* MaxRange pairs, the pair at position i carrying the mapped value i in a
\* unique container
UniqueRanges ==
    UNION {{[i \in 1 .. n |-> <<ks[i], i>>] : ks \in [1 .. n -> Keys]} : n \in 0 .. MaxRange}
MultiRanges ==
    UNION {{[i \in 1 .. n |-> <<ks[i], 1>>] : ks \in [1 .. n -> Keys]} : n \in 0 .. MaxRange}
RangeInputs(k) == IF k = "unique" THEN UniqueRanges ELSE MultiRanges

\* --------------------------------------------------------------- actions
Init ==
    /\ kind \in {"unique", "multi"}
    /\ data = [c \in Maps |-> IF c = A THEN ListNew(1) ELSE NoList]
    /\ hb = [c \in Maps |-> IF c = A THEN HB_New(1) ELSE NoBuckets]
    /\ deq = <<>>
    /\ its = <<>>
    /\ last = Quiet("init")

\* a call on A alone leaves d, h
Alone(d, h) ==
    /\ HB_size(h) <= MaxBuckets
    /\ data' = [c \in Maps |-> IF c = A THEN AloneList(d) ELSE NoList]
    /\ hb' = [c \in Maps |-> IF c = A THEN AloneBuckets(d, h) ELSE NoBuckets]
    /\ UNCHANGED <<kind, deq, its>>

Commit(r, op) == Alone(r.d, r.h) /\ last' = Call(op, r)

\* HashMultiMap.count / HashMultiSet.count: the bucket is the one at
\* hash(key) % hash_buckets_.item_size(). With no element stored the index is
\* NaN, and the call ends with the error nan: OutOfRange where the at() of the
\* bucket array refuses NaN, TypeError where it answers undefined
M_count(d, h, key, nan) ==
    IF h.item_size = 0 THEN Result(d, h, NullIt, 0, nan)
    ELSE LET index == Hash(key) % h.item_size
         IN IF index >= HB_size(h) THEN Result(d, h, NullIt, 0, "OutOfRange")
            ELSE LET bucket == h.buckets[index + 1]
                 IN Result(d, h, NullIt,
                           Cardinality({i \in 1 .. Len(bucket) : bucket[i].first = key}),
                           "none")

\* count(key) of a HashMultiMap / HashMultiSet
CountOf(k) ==
    /\ kind = "multi"
    /\ \E nan \in {"OutOfRange", "TypeError"} :
           \E r \in {M_count(data[A], hb[A], k, nan)} :
               /\ Alone(r.d, r.h)
               /\ last' = [op |-> "count", it |-> "null", n |-> r.n, err |-> r.err,
                           rehashes |-> 0, key |-> k]

\* insert(pair) / insert(val)
Insert(k, v) ==
    /\ size(A) < MaxSize
    /\ \E r \in {IF kind = "unique" THEN U_Insert_by_pair(data[A], hb[A], k, v)
                 ELSE M_Insert_by_pair(data[A], hb[A], k, v)} : Commit(r, "insert")

\* insert(hint, pair) with a hint of this container
InsertHint(pos, k, v) ==
    /\ size(A) < MaxSize
    /\ pos \in 1 .. size(A) + 1
    /\ \E r \in {IF kind = "unique" THEN U_Insert_by_hint(data[A], hb[A], pos, k, v)
                 ELSE M_Insert_by_hint(data[A], hb[A], pos, k, v)} :
           Commit(r, "insert_hint")

\* insert(first, last) / push(...items)
InsertRange(pairs) ==
    /\ size(A) + Len(pairs) <= MaxSize
    /\ \E r \in {IF kind = "unique" THEN U_Insert_by_range(data[A], hb[A], pairs)
                 ELSE M_Insert_by_range(data[A], hb[A], pairs)} :
           Commit(r, "insert_range")

\* erase(key)
EraseKey(k) == \E r \in {C_Erase_by_key(data[A], hb[A], k)} : Commit(r, "erase_key")

\* erase(it) with an iterator to an element of this container
EraseIt(pos) ==
    /\ pos \in 1 .. size(A)
    /\ \E r \in {C_Erase_by_range(data[A], hb[A], pos, pos + 1)} : Commit(r, "erase_it")

\* erase(first, last) with a range of this container
EraseRange(i, j) ==
    /\ i \in 1 .. size(A) + 1
    /\ j \in i .. size(A) + 1
    /\ \E r \in {C_Erase_by_range(data[A], hb[A], i, j)} : Commit(r, "erase_range")

\* rehash(n) emptying the element list when it allocates new buckets
Rehash_Clear(n) ==
    /\ \E h \in {C_rehash(hb[A], n)} :
           /\ Alone(IF h = hb[A] THEN data[A] ELSE ListClear(data[A]), h)
           /\ last' = [Quiet("rehash") EXCEPT !.rehashes = h.rehashes]

\* rehash(n)
Rehash(n) ==
    /\ \E h \in {C_rehash(hb[A], n)} :
           Alone(data[A], h) /\ last' = [Quiet("rehash") EXCEPT !.rehashes = h.rehashes]

\* reserve(n); max_load_factor() returns size() / bucket_count()
Reserve(n) ==
    /\ \E h \in {HB_rehash(hb[A], CeilDiv(n * size(A), bucket_count(A)))} :
           Alone(data[A], h) /\ last' = [Quiet("reserve") EXCEPT !.rehashes = h.rehashes]

\* max_load_factor(z) with z = num / den
MaxLoadFactor(num, den) ==
    /\ \E h \in {C_rehash(hb[A], CeilDiv(bucket_count(A) * den, num))} :
           Alone(data[A], h)
           /\ last' = [Quiet("max_load_factor") EXCEPT !.rehashes = h.rehashes]

\* clear()
Clear ==
    /\ Alone(ListClear(data[A]), HB_clear(hb[A]))
    /\ last' = Quiet("clear")

\* what a call on A and a container constructed from pairs leaves
Pair(dA, hA, dB, hB) ==
    /\ HB_size(hA) <= MaxBuckets
    /\ HB_size(hB) <= MaxBuckets
    /\ data' = [c \in Maps |-> IF c = A THEN NormList(dA) ELSE NormList(dB)]
    /\ hb' = [c \in Maps |-> IF c = A THEN NormBuckets(dA, hA) ELSE NormBuckets(dB, hB)]
    /\ UNCHANGED <<kind, deq, its>>

\* the map that map_ of engine h refers to holds, after a swap, the other list
Swapped_end(h, dA, dB) ==
    [h EXCEPT !.map_end = IF @ = dA.gid THEN dB.gid ELSE IF @ = dB.gid THEN dA.gid ELSE @]

\* A.swap(B), B constructed from pairs and dropped after the call
Swap(pairs) ==
    /\ \E b \in {Construct(kind, 2, pairs)} :
          /\ b.err = "none"
          /\ Alone(b.d, Swapped_end(b.h, data[A], b.d))
    /\ last' = Quiet("swap")

\* A.merge(B), B constructed from pairs
Merge(pairs) ==
    /\ size(A) + Len(pairs) <= MaxSize
    /\ \E b \in {Construct(kind, 2, pairs)} :
          /\ b.err = "none"
          /\ \E r \in {IF kind = "unique"
                       THEN U_merge(AloneList(data[A]), AloneBuckets(data[A], hb[A]),
                                    b.d, b.h, 1)
                       ELSE M_merge(AloneList(data[A]), AloneBuckets(data[A], hb[A]),
                                    b.d, b.h)} :
                /\ Pair(r.d, r.h, r.sd, r.sh)
                /\ last' = [Quiet("merge") EXCEPT !.err = r.err, !.rehashes = r.h.rehashes]

Next ==
    \/ \E k \in Keys, v \in ValsOf(kind) : Insert(k, v)
    \/ \E pos \in 1 .. MaxSize, k \in Keys : InsertHint(pos, k, 1)
    \/ \E pairs \in RangeInputs(kind) : InsertRange(pairs)
    \/ \E k \in Keys : EraseKey(k)
    \/ \E pos \in 1 .. MaxSize : EraseIt(pos)
    \/ \E i \in 1 .. MaxSize + 1, j \in 1 .. MaxSize + 1 : EraseRange(i, j)
    \/ \E n \in 1 .. MaxArg : Rehash(n)
    \/ \E n \in 0 .. MaxArg : Reserve(n)
    \/ \E z \in {<<1, 2>>, <<1, 1>>, <<2, 1>>} : MaxLoadFactor(z[1], z[2])
    \/ Clear
    \/ \E pairs \in RangeInputs(kind) : Swap(pairs)
    \/ \E pairs \in RangeInputs(kind) : Merge(pairs)
    \/ \E k \in Keys : CountOf(k)

Spec == Init /\ [][Next]_vars


\* ------------------------------------------------------------ properties
InScope == {c \in Maps : Present(c)}

\* the keys stored in list d
KeysIn(d) == {d.items[i].first : i \in 1 .. Len(d.items)}

\* the number of elements of list d with key k
CountKey(d, k) == Cardinality({i \in 1 .. Len(d.items) : d.items[i].first = k})

\* C37: in a hashed multi container count(key) returns the number of stored
\* elements whose key equals key, whatever size() and bucket_count() are
C37_Count ==
    (kind = "multi" /\ last.op = "count")
        => last.err = "none" /\ last.n = CountKey(data[A], last.key)

\* what iterating container c from begin() to end() yields: the number of
\* times each (key, mapped value) pair is met, or a failure at begin_ = null
Elements(c) ==
    [fails |-> data[c].beginNull,
     bag |-> [p \in Keys \X Vals |->
                Cardinality({i \in 1 .. size(c) :
                    <<data[c].items[i].first, data[c].items[i].second>> = p})]]

\* the number of handles of node id in bucket b of engine h
InBucket(h, b, id) == Cardinality({j \in 1 .. Len(h.buckets[b]) : h.buckets[b][j].id = id})

InsertOps == {"insert", "insert_hint", "insert_range"}
EraseOps == {"erase_key", "erase_it", "erase_range"}

\* C1: in a unique container, insert(value) with a key that is already stored
\* changes neither the elements nor the buckets and returns the iterator to
\* the stored element of that key together with false.
C1_InsertStoredKey ==
    kind = "unique" =>
        \A k \in KeysIn(data[A]), v \in Vals :
            LET r == U_Insert_by_pair(data[A], hb[A], k, v)
            IN /\ r.d = data[A]
               /\ r.h = hb[A]
               /\ r.n = 0
               /\ r.err = "none"
               /\ r.it.t = "node"
               /\ r.it.gid = data[A].gid
               /\ \E i \in 1 .. size(A) :
                      data[A].items[i].id = r.it.id /\ data[A].items[i].first = k

\* a unique container answered an insert of a stored key
C1_Witness ==
    /\ kind = "unique"
    /\ last.op = "insert"
    /\ last.n = 0
    /\ last.it = "node"
    /\ size(A) = 2

\* C2: no two elements stored in a unique container have equal keys.
C2_UniqueKeys ==
    kind = "unique" =>
        \A c \in InScope : \A k \in Keys : CountKey(data[c], k) <= 1

\* C3: every stored element has exactly one handle in the buckets, and that
\* handle is in the bucket of index hash(key) mod bucket_count.
C3_OneBucket ==
    \A c \in InScope : \A i \in 1 .. size(c) : \A b \in 1 .. bucket_count(c) :
        InBucket(hb[c], b, data[c].items[i].id)
            = IF b = (Hash(data[c].items[i].first) % bucket_count(c)) + 1 THEN 1 ELSE 0

\* a swap left A with two elements in two different buckets
C3_Witness ==
    /\ last.op = "swap"
    /\ size(A) = 2
    /\ Cardinality({b \in 1 .. bucket_count(A) : hb[A].buckets[b] # <<>>}) = 2

\* C4: the bucket sizes of a container add up to its size().
C4_BucketSizes ==
    \A c \in InScope : Len(Flatten(hb[c].buckets)) = size(c)

\* an erase of two elements left one behind
C4_Witness ==
    /\ last.op = "erase_range"
    /\ last.n = 2
    /\ size(A) = 1

\* C5: after a call that inserted an element, size() / bucket_count() is at
\* most the maximum load factor 1.0; the insert of a third distinct key into a
\* unique container with two buckets leaves at least three buckets.
C5_LoadFactor ==
    /\ [](last.op \in InsertOps /\ last.n >= 1 => size(A) <= bucket_count(A) * MAX_RATIO)
    /\ [][(/\ kind = "unique"
           /\ bucket_count(A) = 2
           /\ Cardinality(KeysIn(data[A])) = 2
           /\ last'.op = "insert"
           /\ last'.n = 1) => bucket_count(A)' >= 3]_vars

\* a unique container holds three distinct keys after an insert and has grown
C5_Witness ==
    /\ kind = "unique"
    /\ last.op = "insert"
    /\ last.n = 1
    /\ Cardinality(KeysIn(data[A])) = 3
    /\ bucket_count(A) = 3 * RATIO

\* C6: find(key) returns an iterator to a stored element of that key if there
\* is one, and end() otherwise.
C6_Find ==
    \A k \in Keys :
        LET it == find(A, k)
        IN IF k \in KeysIn(data[A])
           THEN /\ it.t = "node"
                /\ it.gid = data[A].gid
                /\ \E i \in 1 .. size(A) :
                       data[A].items[i].id = it.id /\ data[A].items[i].first = k
           ELSE it = end(A)

\* C7: rehash(n) changes neither size() nor what iterating from begin() to
\* end() yields.
C7_RehashKeepsElements ==
    [][last'.op = "rehash" => size(A)' = size(A) /\ Elements(A)' = Elements(A)]_vars

\* a rehash was called on a container of three elements in three buckets
C7_Witness ==
    /\ last.op = "rehash"
    /\ size(A) = 3
    /\ bucket_count(A) = 3

C9_EraseKey ==
    \A k \in Keys :
        LET r == C_Erase_by_key(data[A], hb[A], k)
        IN r.err = "none" => k \notin KeysIn(r.d) /\ r.n = CountKey(data[A], k)

\* C10: after a.merge(b), b is empty.
C10_SourceEmpty == last.op = "merge" => size(B) = 0

\* C10 as the code has it: after a.merge(b), b is empty if the containers are
\* multi containers; a unique b keeps elements, each of a key that a has.
C10_SourceKeeps ==
    last.op = "merge" =>
        IF kind = "multi" THEN size(B) = 0
        ELSE \A k \in KeysIn(data[B]) : C_has(data[A], hb[A], k)

\* a unique merge moved an element and left another in the source
C10_Witness ==
    /\ kind = "unique"
    /\ last.op = "merge"
    /\ size(B) = 1
    /\ size(A) = 2
    /\ KeysIn(data[B]) \subseteq KeysIn(data[A])

\* C11: a call of insert(first, last) rehashes the bucket array at most once.
C11_OneRehash == last.op = "insert_range" => last.rehashes <= 1

\* a range of two elements was inserted with one rehash
C11_Witness ==
    /\ last.op = "insert_range"
    /\ last.n = MaxRange
    /\ last.rehashes = 1

\* C12: in a unique container, insert(hint, value) with a key that is already
\* stored inserts nothing and returns the iterator to the stored element of
\* that key.
C12_HintStoredKey ==
    kind = "unique" =>
        \A pos \in 1 .. size(A) + 1, k \in KeysIn(data[A]), v \in Vals :
            LET r == U_Insert_by_hint(data[A], hb[A], pos, k, v)
            IN /\ r.d = data[A]
               /\ r.h = hb[A]
               /\ r.it.t = "node"
               /\ \E i \in 1 .. size(A) :
                      data[A].items[i].id = r.it.id /\ data[A].items[i].first = k

\* what stepping with next() from begin() to end() of container c visits: the
\* elements in list order, or nothing at all if begin_ holds null
Traversal(c) == [fails |-> data[c].beginNull, seq |-> PairsOf(data[c].items)]

IsPrefix(s, t) == Len(s) <= Len(t) /\ SubSeq(t, 1, Len(s)) = s

\* C13: the traversal from begin() to end() visits every stored element, in
\* the order of insertion: it never fails, an insert without a hint appends to
\* what is visited, a rehash, reserve or max_load_factor leaves it unchanged.
C13_InsertionOrder ==
    /\ [](~Traversal(A).fails)
    /\ [][(last'.op \in {"insert", "insert_range"}
              => IsPrefix(Traversal(A).seq, Traversal(A).seq'))
          /\ (last'.op \in {"rehash", "reserve", "max_load_factor"}
              => Traversal(A).seq' = Traversal(A).seq)]_vars


\* ------------------------------------------- calls given any iterator
\* whether iterator it belongs to list d (the gid_ comparison)
Own(d, it) == it.gid = d.gid

\* the position in list d that its own iterator it denotes
PosOfIt(d, it) == IF it.t = "end" THEN Len(d.items) + 1 ELSE PosOf(d, it.id)

\* iterators of a container other than the one called: its end(), its begin()
Foreign == {EndIt(2), NodeIt(2, 1)}

\* insert(hint, pair): HashMap._Insert_by_hint looks the key up before it
\* hands the hint to ListContainer.insert, which validates it
C_Insert_by_hint(knd, d, h, hint, k, v) ==
    IF knd = "unique" /\ C_has(d, h, k) THEN Result(d, h, ListEnd(d), 0, "none")
    ELSE IF ~Own(d, hint) THEN Result(d, h, NullIt, 0, "InvalidArgument")
    ELSE IF knd = "unique" THEN U_Insert_by_hint(d, h, PosOfIt(d, hint), k, v)
    ELSE M_Insert_by_hint(d, h, PosOfIt(d, hint), k, v)

\* erase(first, last) validating the iterators after the elements from first
\* on are unlinked
C_erase_range_Late(d, h, first, lst) ==
    IF ~Own(d, first) THEN Result(d, h, NullIt, 0, "InvalidArgument")
    ELSE IF ~Own(d, lst)
    THEN LET r == C_Erase_by_range(d, h, PosOfIt(d, first), Len(d.items) + 1)
         IN Result(r.d, r.h, NullIt, 0, "InvalidArgument")
    ELSE C_Erase_by_range(d, h, PosOfIt(d, first), PosOfIt(d, lst))

\* erase(first, last): MapContainer._Erase_by_range erases from the list,
\* which validates both iterators, before it touches the buckets
C_erase_range(d, h, first, lst) ==
    IF ~Own(d, first) \/ ~Own(d, lst) THEN Result(d, h, NullIt, 0, "InvalidArgument")
    ELSE C_Erase_by_range(d, h, PosOfIt(d, first), PosOfIt(d, lst))

\* erase(it): an iterator of another list is taken for a key; no stored key
\* equals an iterator, so that find returns the end() of the engine's map
C_erase(d, h, it) ==
    IF Own(d, it) THEN C_erase_range(d, h, it, ItAt(d, PosOfIt(d, it) + 1))
    ELSE LET f == EndIt(h.map_end)
         IN IF f = ListEnd(d) THEN Result(d, h, NullIt, 0, "none")
            ELSE C_erase_range(d, h, f, f)

\* UniqueMap.get(key)
U_get(d, h, key) ==
    LET it == C_find(d, h, key)
    IN IF it = ListEnd(d) THEN Result(d, h, NullIt, 0, "OutOfRange")
       ELSE IF it.t = "end" THEN Result(d, h, NullIt, 0, "TypeError")
       ELSE Result(d, h, it, 0, "none")

\* UniqueMap.extract(key) / UniqueSet.extract(val)
U_Extract_by_key(d, h, key) ==
    LET it == C_find(d, h, key)
    IN IF it = ListEnd(d) THEN Result(d, h, NullIt, 0, "OutOfRange")
       ELSE LET r == C_erase(d, h, it) IN Result(r.d, r.h, NullIt, r.n, r.err)

Hashed == kind \in {"unique", "multi"}

\* insert(hint, pair) with a hint of another container
InsertHintOf(hint, k, v) ==
    /\ size(A) < MaxSize
    /\ \E r \in {C_Insert_by_hint(kind, data[A], hb[A], hint, k, v)} :
           Commit(r, "insert_hint_of")

\* erase(it) with an iterator of another container
EraseOf(it) == \E r \in {C_erase(data[A], hb[A], it)} : Commit(r, "erase_of")

\* erase(first, last), one of the two an iterator of another container
EraseRangeOf(first, lst) ==
    /\ Own(data[A], first) => first.t = "end" \/ first.id \in IdsOf(data[A].items)
    /\ Own(data[A], lst) => lst.t = "end" \/ lst.id \in IdsOf(data[A].items)
    /\ \E r \in {C_erase_range(data[A], hb[A], first, lst)} : Commit(r, "erase_range_of")

\* extract(key)
Extract(k) ==
    /\ kind = "unique"
    /\ \E r \in {U_Extract_by_key(data[A], hb[A], k)} : Commit(r, "extract")

\* get(key)
Get(k) ==
    /\ kind = "unique"
    /\ \E r \in {U_get(data[A], hb[A], k)} : Commit(r, "get")

\* the iterators of A and of another container that erase(first, last) is given
RangeIts == Foreign \cup {EndIt(1)} \cup {NodeIt(1, i) : i \in 1 .. MaxSize}


\* ================================================================= Deque
MaxDeque == 2        \* the Deques of a call never hold more elements than this
MaxSteps == 2        \* largest |n| given to advance(n)

ROW == 8
MIN_CAPACITY == 100

\* undefined, which reading past an Array yields; the elements are positive
Undefined == 0 - 1

\* a Deque: the rows matrix_, the counters size_ and capacity_. An Array
\* written at index -1 (the index of end()) keeps the value as a property of
\* its own, which is no element: below_ is matrix_[0][-1]. matrix_ may end
\* with elements standing where rows are expected (_Insert_by_items puts them
\* there): loose_ is their number, and each is kept as a row of its own.
Deque_Get_col_size(d) == d.capacity_ \div ROW

\* clear(); the constructor without arguments calls it
Deque_clear ==
    [matrix_ |-> <<<<>>>>, size_ |-> 0, capacity_ |-> MIN_CAPACITY, below_ |-> Undefined,
     loose_ |-> 0]

\* the entries of matrix_ that are Arrays
Arrays(d) == SubSeq(d.matrix_, 1, Len(d.matrix_) - d.loose_)

\* the elements of s in rows of n
Rows(s, n) ==
    IF s = <<>> THEN <<<<>>>>
    ELSE [r \in 1 .. CeilDiv(Len(s), n) |-> SubSeq(s, (r - 1) * n + 1, IF r * n <= Len(s) THEN r * n ELSE Len(s))]

\* reserve(capacity) refills matrix_ and leaves capacity_ as it is; an entry
\* that is no Array has no length and gives nothing
Deque_reserve(d, capacity) ==
    [d EXCEPT !.matrix_ = Rows(Flatten(Arrays(d)), Deque_Get_col_size(d)),
              !.below_ = Undefined,
              !.loose_ = 0]

Deque_size(d) == d.size_

\* what a call leaves (d) and returns (val), and the error it raises
DResult(d, val, err) == [d |-> d, val |-> val, err |-> err]

\* _Fetch_index(index): the row and the column, both counted from 0
RECURSIVE Fetch_from(_, _, _)
Fetch_from(m, row, index) ==
    IF row = Len(m) THEN <<row - 1, index>>
    ELSE IF index < Len(m[row + 1]) THEN <<row, index>>
    ELSE Fetch_from(m, row + 1, index - Len(m[row + 1]))

\* an entry that is no Array has no length: the index counted down past the
\* Arrays becomes NaN, and the last row is answered with it (shown as Undefined)
Deque_Fetch_index(d, index) ==
    IF d.loose_ > 0 /\ index >= Len(Flatten(Arrays(d)))
    THEN <<Len(d.matrix_) - 1, Undefined>>
    ELSE Fetch_from(d.matrix_, 0, index)

\* matrix_[row][col]
Cell(d, p) ==
    LET array == d.matrix_[p[1] + 1]
    IN IF p[1] + 1 > Len(d.matrix_) - d.loose_ THEN Undefined
       ELSE IF p[2] >= 0 /\ p[2] < Len(array) THEN array[p[2] + 1]
       ELSE IF p[2] = 0 - 1 THEN d.below_
       ELSE Undefined

\* at(index)
Deque_at(d, index) ==
    IF index > Deque_size(d) THEN DResult(d, Undefined, "OutOfRange")
    ELSE DResult(d, Cell(d, Deque_Fetch_index(d, index)), "none")

\* set(index, val); an Array written past its length grows
Deque_set(d, index, val) ==
    IF index >= Deque_size(d) THEN DResult(d, Undefined, "OutOfRange")
    ELSE LET p == Deque_Fetch_index(d, index)
         IN IF p[2] = 0 - 1 THEN DResult([d EXCEPT !.below_ = val], Undefined, "none")
            ELSE DResult([d EXCEPT !.matrix_[p[1] + 1][p[2] + 1] = val], Undefined, "none")

\* push(...items)
RECURSIVE Push_items(_, _, _)
Push_items(m, col, items) ==
    IF items = <<>> THEN m
    ELSE IF Len(m[Len(m)]) >= col
    THEN Push_items(Append(m, <<Head(items)>>), col, Tail(items))
    ELSE Push_items([m EXCEPT ![Len(m)] = Append(@, Head(items))], col, Tail(items))

Deque_push(d, items) ==
    LET d1 == IF d.size_ + Len(items) > d.capacity_
              THEN Deque_reserve(d, d.size_ + Len(items))
              ELSE d
    IN [d1 EXCEPT !.matrix_ = Push_items(d1.matrix_, Deque_Get_col_size(d1), items),
                  !.size_ = @ + Len(items)]

\* push_front(val)
Deque_push_front(d, val) ==
    LET d1 == [d EXCEPT !.matrix_[1] = <<val>> \o @, !.size_ = @ + 1]
    IN IF d1.size_ > d1.capacity_ THEN Deque_reserve(d1, d1.size_ * 2) ELSE d1

\* push_back(val)
Deque_push_back(d, val) ==
    LET m == IF Len(d.matrix_[Len(d.matrix_)]) >= Deque_Get_col_size(d)
                  /\ Len(d.matrix_) < ROW
             THEN Append(d.matrix_, <<>>)
             ELSE d.matrix_
        d1 == [d EXCEPT !.matrix_ = [m EXCEPT ![Len(m)] = Append(@, val)],
                        !.size_ = @ + 1]
    IN IF d1.size_ > d1.capacity_ THEN Deque_reserve(d1, d1.size_ * 2) ELSE d1

\* pop_front()
Deque_pop_front(d) ==
    IF Deque_size(d) = 0 THEN d
    ELSE LET m == [d.matrix_ EXCEPT ![1] = Tail(@)]
         IN [d EXCEPT !.matrix_ = IF m[1] = <<>> /\ Len(m) > 1 THEN Tail(m) ELSE m,
                      !.size_ = @ - 1,
                      !.below_ = IF m[1] = <<>> /\ Len(m) > 1 THEN Undefined ELSE @]

\* pop_back()
Deque_pop_back(d) ==
    IF Deque_size(d) = 0 THEN d
    ELSE LET n == Len(d.matrix_)
             m == [d.matrix_ EXCEPT ![n] = SubSeq(@, 1, Len(@) - 1)]
         IN [d EXCEPT !.matrix_ = IF m[n] = <<>> /\ n > 1 THEN SubSeq(m, 1, n - 1) ELSE m,
                      !.size_ = @ - 1]

\* new Deque(items)
Deque_new(items) == Deque_push(Deque_clear, items)

\* ------------------------------------------------------- Deque iterators
\* a DequeIterator: its source_ (c names the Deque) and its index_
DequeIterator(c, index) == [source_ |-> c, index_ |-> index]

\* begin(), end() of Deque c holding sz elements: the reserved iterators
\* begin_, of index 0, and end_, of index -1
Deque_end(c) == DequeIterator(c, 0 - 1)
Deque_begin(c, sz) == IF sz = 0 THEN Deque_end(c) ELSE DequeIterator(c, 0)

\* prev(), next(), advance(n) of an iterator whose source_ holds sz elements
DequeIterator_prev(it, sz) ==
    IF it.index_ = 0 - 1 THEN DequeIterator(it.source_, sz - 1)
    ELSE IF it.index_ - 1 < 0 THEN Deque_end(it.source_)
    ELSE DequeIterator(it.source_, it.index_ - 1)

DequeIterator_next(it, sz) ==
    IF it.index_ >= sz - 1 THEN Deque_end(it.source_)
    ELSE DequeIterator(it.source_, it.index_ + 1)

DequeIterator_advance(it, n, sz) ==
    LET new_index == IF n < 0 /\ it.index_ = 0 - 1 THEN sz + n ELSE it.index_ + n
    IN IF new_index < 0 \/ new_index >= sz THEN Deque_end(it.source_)
       ELSE DequeIterator(it.source_, new_index)

\* Iterator.equals
Iterator_equals(x, y) == x.source_ = y.source_

\* DequeIterator.equals comparing the indices only
DequeIterator_equals_Index(x, y) == x.index_ = y.index_

\* DequeIterator.equals
DequeIterator_equals(x, y) == Iterator_equals(x, y) /\ x.index_ = y.index_

\* a DequeReverseIterator: base_ is the iterator before the one it is made of
DequeReverseIterator(base, sz) ==
    [source_ |-> base.source_, base_ |-> DequeIterator_prev(base, sz)]

ReverseIterator_base(r, sz) == DequeIterator_next(r.base_, sz)

ReverseIterator_prev(r, sz) ==
    DequeReverseIterator(DequeIterator_next(ReverseIterator_base(r, sz), sz), sz)

ReverseIterator_next(r, sz) ==
    DequeReverseIterator(DequeIterator_prev(ReverseIterator_base(r, sz), sz), sz)

ReverseIterator_equals(x, y) == DequeIterator_equals(x.base_, y.base_)

\* prev(), next() of std.base.ReverseIterator, whose constructor, base() and
\* equals() are the ones above: _Create_neighbor(base) constructs the reverse
\* iterator of base. Its base iterators move in a ring through end(), as the
\* DequeIterators do.
base_ReverseIterator_prev(r, sz) == DequeReverseIterator(r.base_, sz)

base_ReverseIterator_next(r, sz) ==
    DequeReverseIterator(DequeIterator_prev(ReverseIterator_base(r, sz), sz), sz)

\* the classes of reverse iterators, and their prev() and next()
Classes == {"std.ReverseIterator", "std.base.ReverseIterator"}

PrevIn(class, r, sz) ==
    IF class = "std.ReverseIterator" THEN ReverseIterator_prev(r, sz)
    ELSE base_ReverseIterator_prev(r, sz)

NextIn(class, r, sz) ==
    IF class = "std.ReverseIterator" THEN ReverseIterator_next(r, sz)
    ELSE base_ReverseIterator_next(r, sz)

\* rbegin(), rend()
Deque_rbegin(c, sz) == DequeReverseIterator(Deque_end(c), sz)
Deque_rend(c, sz) ==
    IF sz = 0 THEN DequeReverseIterator(Deque_end(c), sz)
    ELSE [source_ |-> c, base_ |-> Deque_end(c)]


\* distance(first, last) of two DequeIterators or two DequeReverseIterators:
\* both have an index, which distance subtracts
IsReverse(it) == "base_" \in DOMAIN it
Index(it) == IF IsReverse(it) THEN it.base_.index_ ELSE it.index_

distance(first, lst) ==
    LET n == Index(lst) - Index(first) IN IF n < 0 THEN 0 - n ELSE n

\* ------------------------------------------------- Deque insert and erase
\* array.splice(start): the elements kept, and the elements removed
Splice_start(array, start) ==
    IF start < 0 THEN (IF Len(array) + start < 0 THEN 0 ELSE Len(array) + start)
    ELSE IF start > Len(array) THEN Len(array) ELSE start

Splice_kept(array, start) == SubSeq(array, 1, Splice_start(array, start))
Splice_removed(array, start) == SubSeq(array, Splice_start(array, start) + 1, Len(array))

\* while (items.length != 0) matrix_.push(items.splice(0, Math.min(ROW, items.length)))
Items_rows(items) == IF items = <<>> THEN <<>> ELSE Rows(items, ROW)

\* _Insert_by_items(position, items). The rows after the row of position are
\* put back by matrix_.concat(...splicedArray): concat appends the elements of
\* each of its Array arguments, so it is their elements that are appended.
Deque_Insert_by_items(d, position, items) ==
    LET d0 == [d EXCEPT !.size_ = @ + Len(items)]
        index_pair == Deque_Fetch_index(d0, position.index_)
        index == index_pair[1] + 1
        spliced_values == Splice_removed(d0.matrix_[index], index_pair[2])
        row == Splice_kept(d0.matrix_[index], index_pair[2])
        all == items \o spliced_values
    IN IF d0.size_ <= d0.capacity_
       THEN LET n == IF Len(row) >= ROW THEN 0
                     ELSE IF ROW - Len(row) > Len(all) THEN Len(all) ELSE ROW - Len(row)
                splicedArray == SubSeq(d0.matrix_, index + 1, Len(d0.matrix_))
            IN DResult([d0 EXCEPT !.matrix_ =
                            SubSeq(d0.matrix_, 1, index - 1)
                                \o <<row \o SubSeq(all, 1, n)>>
                                \o Items_rows(SubSeq(all, n + 1, Len(all)))
                                \o [i \in 1 .. Len(Flatten(splicedArray)) |->
                                        <<Flatten(splicedArray)[i]>>],
                               !.loose_ = Len(Flatten(splicedArray)),
                               !.below_ = IF index = 1 /\ Len(row) < ROW THEN Undefined ELSE @],
                       position, "none")
       ELSE IF position.index_ = 0 - 1
       THEN DResult(Deque_reserve([d0 EXCEPT !.matrix_ = Append(@, items)], d0.size_),
                    position, "none")
       ELSE DResult(Deque_reserve([d0 EXCEPT !.matrix_[index] = row \o all], d0.size_),
                    position, "none")

\* _Insert_by_repeating_val(position, n, val) of Deque c
Deque_Insert_by_repeating_val(c, d, position, n, val) ==
    IF DequeIterator_equals(position, Deque_end(c))
    THEN LET d1 == Deque_push(d, [i \in 1 .. n |-> val])
         IN DResult(d1, Deque_begin(c, Deque_size(d1)), "none")
    ELSE Deque_Insert_by_items(d, position, [i \in 1 .. n |-> val])

\* insert(position, val) leaving the Deque as it is
Deque_insert_None(c, d, position, val) == DResult(d, position, "none")

\* insert(position, val) of Deque c, position a DequeIterator
Deque_insert(c, d, position, val) == Deque_Insert_by_repeating_val(c, d, position, 1, val)

\* the while loop of _Erase_by_range; it does not end when nothing is left
\* to delete at index, which is shown by leaving the loop with what is there
RECURSIVE Erase_while(_, _, _)
Erase_while(m, index, count) ==
    IF count = 0 THEN m
    ELSE LET indexPair == Fetch_from(m, 0, index)
             array == m[indexPair[1] + 1]
             myDeleteSize == IF count < Len(array) - indexPair[2] THEN count
                             ELSE Len(array) - indexPair[2]
             rest == Splice_kept(array, indexPair[2])
                        \o Splice_removed(array, indexPair[2] + myDeleteSize)
         IN IF myDeleteSize <= 0 THEN m
            ELSE Erase_while(IF rest = <<>> /\ Len(m) > 1
                             THEN RemoveAt(m, indexPair[1] + 1)
                             ELSE [m EXCEPT ![indexPair[1] + 1] = rest],
                             index, count - myDeleteSize)

\* _Erase_by_range(first, last) returning first whatever last is
Deque_Erase_by_range_First(c, d, first, lst) ==
    IF first.index_ = 0 - 1 THEN DResult(d, first, "none")
    ELSE LET count == IF lst.index_ = 0 - 1 THEN Deque_size(d) - first.index_
                      ELSE lst.index_ - first.index_
         IN DResult([d EXCEPT !.size_ = @ - count,
                              !.matrix_ = Erase_while(@, first.index_, count)],
                    first, "none")

\* _Erase_by_range(first, last) of Deque c
Deque_Erase_by_range(c, d, first, lst) ==
    IF first.index_ = 0 - 1 THEN DResult(d, first, "none")
    ELSE LET count == IF lst.index_ = 0 - 1 THEN Deque_size(d) - first.index_
                     ELSE lst.index_ - first.index_
         IN DResult([d EXCEPT !.size_ = @ - count,
                              !.matrix_ = Erase_while(@, first.index_, count),
                              !.below_ = IF /\ Len(d.matrix_) > 1
                                            /\ d.matrix_[1] # <<>>
                                            /\ first.index_ = 0
                                            /\ count >= Len(d.matrix_[1])
                                         THEN Undefined ELSE @],
                    IF lst.index_ = 0 - 1 THEN Deque_end(c) ELSE first, "none")

\* erase(position) of Deque c: last = first.next()
Deque_erase(c, d, first) ==
    Deque_Erase_by_range(c, d, first, DequeIterator_next(first, Deque_size(d)))

\* --------------------------------------------------------- Deque actions
DequeVals == 1 .. MaxVal

NoIt == [source_ |-> "none"]

\* the record of a call on a Deque or on an iterator
DCall(op, val, err) == [op |-> op, val |-> val, err |-> err]

InitDeque ==
    /\ kind = "deque"
    /\ data = [c \in Maps |-> NoList]
    /\ hb = [c \in Maps |-> NoBuckets]
    /\ deq = [c \in Maps |-> Deque_clear]
    /\ its = [x |-> NoIt, y |-> NoIt]
    /\ last = DCall("init", Undefined, "none")

Slots == {"x", "y"}

\* a call changing Deque c into d, after which the iterators of c are no
\* longer used
Mutate(c, d, op) ==
    /\ kind = "deque"
    /\ d.size_ <= MaxDeque
    /\ deq' = [deq EXCEPT ![c] = d]
    /\ its' = [s \in Slots |-> IF its[s].source_ = c THEN NoIt ELSE its[s]]
    /\ last' = DCall(op, Undefined, "none")
    /\ UNCHANGED <<kind, data, hb>>

PushBack(c, v) == Mutate(c, Deque_push_back(deq[c], v), "push_back")
PushFront(c, v) == Mutate(c, Deque_push_front(deq[c], v), "push_front")
PopBack(c) == Mutate(c, Deque_pop_back(deq[c]), "pop_back")
PopFront(c) == Mutate(c, Deque_pop_front(deq[c]), "pop_front")

\* at(index), set(index, val) on A
At(index) ==
    /\ kind = "deque"
    /\ \E r \in {Deque_at(deq[A], index)} : last' = DCall("at", r.val, r.err)
    /\ UNCHANGED <<kind, data, hb, deq, its>>

Set(index, val) ==
    /\ kind = "deque"
    /\ \E r \in {Deque_set(deq[A], index, val)} :
          /\ deq' = [deq EXCEPT ![A] = r.d]
          /\ last' = DCall("set", r.val, r.err)
    /\ UNCHANGED <<kind, data, hb, its>>

\* the program takes iterator it into slot s
Take(s, it, op) ==
    /\ kind = "deque"
    /\ its' = [its EXCEPT ![s] = it]
    /\ last' = DCall(op, Undefined, "none")
    /\ UNCHANGED <<kind, data, hb, deq>>

SizeOf(it) == Deque_size(deq[it.source_])

Begin(s, c) == Take(s, Deque_begin(c, Deque_size(deq[c])), "begin")
End(s, c) == Take(s, Deque_end(c), "end")
RBegin(s, c) == Take(s, Deque_rbegin(c, Deque_size(deq[c])), "rbegin")
REnd(s, c) == Take(s, Deque_rend(c, Deque_size(deq[c])), "rend")

\* it = it.next(), it = it.prev(), it = it.advance(n)
StepNext(s) ==
    /\ its[s] # NoIt
    /\ Take(s, IF IsReverse(its[s]) THEN ReverseIterator_next(its[s], SizeOf(its[s]))
               ELSE DequeIterator_next(its[s], SizeOf(its[s])), "next")

StepPrev(s) ==
    /\ its[s] # NoIt
    /\ Take(s, IF IsReverse(its[s]) THEN ReverseIterator_prev(its[s], SizeOf(its[s]))
               ELSE DequeIterator_prev(its[s], SizeOf(its[s])), "prev")

Advance(s, n) ==
    /\ its[s] # NoIt
    /\ ~IsReverse(its[s])
    /\ Take(s, DequeIterator_advance(its[s], n, SizeOf(its[s])), "advance")

\* r.next(), r.prev() and r.next().prev().equals(r) of the reverse iterator r
\* held in slot s, r being of the given class: the indices of the elements
\* that r (from), r.next() and r.prev() denote, of elements in all
Walk(s, class) ==
    /\ kind = "deque"
    /\ its[s] # NoIt
    /\ IsReverse(its[s])
    /\ LET r == its[s]
           sz == SizeOf(r)
       IN last' = [op |-> "next_prev", err |-> "none", class |-> class,
                   val |-> ReverseIterator_equals(PrevIn(class, NextIn(class, r, sz), sz), r),
                   from |-> Index(r), of |-> sz,
                   next |-> Index(NextIn(class, r, sz)),
                   prev |-> Index(PrevIn(class, r, sz))]
    /\ UNCHANGED <<kind, data, hb, deq, its>>

\* the position a held iterator denotes in the sequence it traverses: end()
\* and rend(), whose index is -1, denote the position after the last one
Position(it) ==
    IF Index(it) = 0 - 1 THEN SizeOf(it)
    ELSE IF IsReverse(it) THEN SizeOf(it) - 1 - Index(it)
    ELSE Index(it)

\* two held iterators of one class
Comparable ==
    /\ its.x # NoIt
    /\ its.y # NoIt
    /\ IsReverse(its.x) = IsReverse(its.y)

\* x.equals(y)
Equals ==
    /\ kind = "deque"
    /\ Comparable
    /\ last' = DCall("equals",
                     IF IsReverse(its.x) THEN ReverseIterator_equals(its.x, its.y)
                     ELSE DequeIterator_equals(its.x, its.y), "none")
    /\ UNCHANGED <<kind, data, hb, deq, its>>

\* distance(x, y) with [x, y) a range of one Deque
Distance ==
    /\ kind = "deque"
    /\ Comparable
    /\ its.x.source_ = its.y.source_
    /\ Position(its.x) <= Position(its.y)
    /\ last' = DCall("distance", distance(its.x, its.y), "none")
    /\ UNCHANGED <<kind, data, hb, deq, its>>

\* it = c.insert(it, val), it a DequeIterator held in slot s and c its Deque;
\* the other iterators of c are no longer used
InsertAt(s, v) ==
    /\ kind = "deque"
    /\ its[s] # NoIt
    /\ ~IsReverse(its[s])
    /\ \E r \in {Deque_insert(its[s].source_, deq[its[s].source_], its[s], v)} :
          /\ r.d.size_ <= MaxDeque
          /\ deq' = [deq EXCEPT ![its[s].source_] = r.d]
          /\ its' = [t \in Slots |-> IF t = s THEN r.val
                                     ELSE IF its[t].source_ = its[s].source_ THEN NoIt
                                     ELSE its[t]]
          /\ last' = [op |-> "insert", val |-> v, err |-> r.err,
                      slot |-> s, index |-> Position(its[s])]
    /\ UNCHANGED <<kind, data, hb>>

\* x = c.erase(x, y), [x, y) a range of DequeIterators of Deque c; the
\* other iterators of c are no longer used
EraseRangeAt ==
    /\ kind = "deque"
    /\ its.x # NoIt
    /\ its.y # NoIt
    /\ ~IsReverse(its.x)
    /\ ~IsReverse(its.y)
    /\ its.x.source_ = its.y.source_
    /\ Position(its.x) <= Position(its.y)
    /\ \E r \in {Deque_Erase_by_range(its.x.source_, deq[its.x.source_], its.x, its.y)} :
          /\ deq' = [deq EXCEPT ![its.x.source_] = r.d]
          /\ its' = [x |-> r.val, y |-> NoIt]
          /\ last' = [op |-> "erase", val |-> Undefined, err |-> r.err, slot |-> "x",
                      before |-> Flatten(deq[its.x.source_].matrix_),
                      first |-> Position(its.x), lst |-> Position(its.y)]
    /\ UNCHANGED <<kind, data, hb>>

\* it = c.erase(it), it a DequeIterator to an element of Deque c, held in
\* slot s
EraseAt(s) ==
    /\ kind = "deque"
    /\ its[s] # NoIt
    /\ ~IsReverse(its[s])
    /\ its[s].index_ # 0 - 1
    /\ \E r \in {Deque_erase(its[s].source_, deq[its[s].source_], its[s])} :
          /\ deq' = [deq EXCEPT ![its[s].source_] = r.d]
          /\ its' = [t \in Slots |-> IF t = s THEN r.val
                                     ELSE IF its[t].source_ = its[s].source_ THEN NoIt
                                     ELSE its[t]]
          /\ last' = [op |-> "erase", val |-> Undefined, err |-> r.err, slot |-> s,
                      before |-> Flatten(deq[its[s].source_].matrix_),
                      first |-> Position(its[s]), lst |-> Position(its[s]) + 1]
    /\ UNCHANGED <<kind, data, hb>>

NextDeque ==
    \/ \E v \in DequeVals : PushBack(A, v)
    \/ PushBack(B, 1)
    \/ \E v \in DequeVals : PushFront(A, v)
    \/ \E c \in Maps : PopBack(c)
    \/ PopFront(A)
    \/ \E s \in Slots, c \in Maps : Begin(s, c)
    \/ \E s \in Slots, c \in Maps : End(s, c)
    \/ \E s \in Slots, c \in Maps : RBegin(s, c)
    \/ \E s \in Slots, c \in Maps : REnd(s, c)
    \/ \E s \in Slots : StepNext(s)
    \/ \E s \in Slots : StepPrev(s)
    \/ \E s \in Slots, n \in (0 - MaxSteps) .. MaxSteps : Advance(s, n)
    \/ \E s \in Slots, v \in DequeVals : InsertAt(s, v)
    \/ EraseRangeAt
    \/ \E s \in Slots : EraseAt(s)
    \/ Equals
    \/ Distance
    \/ \E s \in Slots, class \in Classes : Walk(s, class)

SpecDeque == InitDeque /\ [][NextDeque]_vars

\* ------------------------------------------- the calls that raise errors
InitErr == Init \/ InitDeque

NextErr ==
    \/ \E k \in Keys, v \in ValsOf(kind) : Hashed /\ Insert(k, v)
    \/ \E pairs \in RangeInputs(kind) : Hashed /\ InsertRange(pairs)
    \/ \E k \in Keys : Hashed /\ EraseKey(k)
    \/ Hashed /\ Clear
    \/ \E pairs \in RangeInputs(kind) : Hashed /\ Swap(pairs)
    \/ \E hint \in Foreign, k \in Keys : Hashed /\ InsertHintOf(hint, k, 1)
    \/ \E it \in Foreign : Hashed /\ EraseOf(it)
    \/ \E first \in RangeIts, lst \in RangeIts :
           Hashed /\ (first \in Foreign \/ lst \in Foreign) /\ EraseRangeOf(first, lst)
    \/ \E k \in Keys : Extract(k)
    \/ \E k \in Keys : Get(k)
    \/ \E v \in DequeVals : PushBack(A, v)
    \/ PopFront(A)
    \/ \E index \in 0 .. MaxDeque + 1 : At(index)
    \/ \E index \in 0 .. MaxDeque + 1, v \in DequeVals : Set(index, v)

SpecErr == InitErr /\ [][NextErr]_vars


\* C14: a mutating call (insert at a position, erase by iterator, erase by
\* range) that is given an iterator of another container raises
\* InvalidArgument.
C14_ForeignRefused ==
    last.op \in {"insert_hint_of", "erase_of", "erase_range_of"}
        => last.err = "InvalidArgument"

\* C15: a call that raises InvalidArgument or OutOfRange leaves the container
\* as it was before the call: element list, size, buckets (and the rows of a
\* Deque) are unchanged.
C15_ErrorKeepsState ==
    [][last'.err \in {"InvalidArgument", "OutOfRange"}
          => data' = data /\ hb' = hb /\ deq' = deq]_vars

\* erase(first, last) of a container holding two elements or more was refused
C15_Witness ==
    /\ last.op = "erase_range_of"
    /\ last.err = "InvalidArgument"
    /\ size(A) >= 2

C40_ReverseMoves ==
    last.op = "next_prev"
        => /\ last.val
           /\ last.from >= 1 => last.next = last.from - 1
           /\ (last.from >= 0 /\ last.from + 1 < last.of) => last.prev = last.from + 1

\* C38: at(index) raises OutOfRange for every index >= size(), index = size()
\* included, and returns the stored element for every 0 <= index < size().
C38_At ==
    [][\A index \in 0 .. MaxDeque + 1 :
           At(index) => IF index >= Deque_size(deq[A]) THEN last'.err = "OutOfRange"
                        ELSE /\ last'.err = "none"
                             /\ last'.val = Flatten(deq[A].matrix_)[index + 1]]_vars

\* x.next() and x.equals(y) of two iterators of one class
NextOf(x) ==
    IF IsReverse(x) THEN ReverseIterator_next(x, SizeOf(x))
    ELSE DequeIterator_next(x, SizeOf(x))

EqualsOf(x, y) ==
    IF IsReverse(x) THEN ReverseIterator_equals(x, y) ELSE DequeIterator_equals(x, y)

\* the number of next() steps that lead from x to y
RECURSIVE Steps(_, _)
Steps(x, y) == IF EqualsOf(x, y) THEN 0 ELSE 1 + Steps(NextOf(x), y)

\* C17: two iterators compare equal exactly when they belong to the same
\* container and denote the same position, whatever the elements are.
C17_EqualsSamePosition ==
    last.op = "equals"
        => (last.val <=> (/\ its.x.source_ = its.y.source_
                          /\ Position(its.x) = Position(its.y)))

\* the iterators to the first elements of two Deques holding the same
\* elements were compared, and are not equal
C17_Witness ==
    /\ last.op = "equals"
    /\ ~last.val
    /\ deq[A] = deq[B]
    /\ Deque_size(deq[A]) >= 1
    /\ ~IsReverse(its.x)
    /\ its.x.index_ = 0
    /\ its.y.index_ = 0

\* C18: distance(first, last) is the number of next() steps from first to
\* last, also when last is end(): distance(begin(), end()) = size().
C18_DistanceSteps ==
    last.op = "distance"
        => /\ last.val = Steps(its.x, its.y)
           /\ (Position(its.x) = 0 /\ Position(its.y) = SizeOf(its.y)
                   => last.val = SizeOf(its.y))

\* C30: insert(position, val) returns an iterator to the element it has
\* inserted, which stands where position stood, end() included; the element
\* after it is the one position denoted.
C30_InsertReturnsNew ==
    (kind = "deque" /\ last.op = "insert")
        => /\ Position(its[last.slot]) = last.index
           /\ Deque_at(deq[its[last.slot].source_], its[last.slot].index_).val = last.val

\* C31: erase(first, last) removes the elements of [first, last) and no
\* other, and returns an iterator to the element that followed them, end()
\* when the range reached the end of the Deque; erase(it) does so with
\* last = it.next().
C31_EraseRange ==
    (kind = "deque" /\ last.op = "erase")
        => LET it == its[last.slot]
               d == deq[it.source_]
           IN /\ Flatten(d.matrix_) = SubSeq(last.before, 1, last.first)
                                         \o SubSeq(last.before, last.lst + 1, Len(last.before))
              /\ Deque_size(d) = Len(Flatten(d.matrix_))
              /\ it.index_ = IF last.lst = Len(last.before) THEN 0 - 1 ELSE last.first

\* elements that had one after them were erased
C31_Witness ==
    /\ kind = "deque"
    /\ last.op = "erase"
    /\ last.first < last.lst
    /\ last.lst < Len(last.before)

\* ============================================================ algorithms
MaxLen == 3          \* the Deque an algorithm is called on holds up to MaxLen elements
MaxElem == 3         \* its elements are 1..MaxElem

Elems == 1 .. MaxElem

\* less and greater of the functional module: x < y and x > y, false when
\* one of the two is undefined
less(x, y) == x # Undefined /\ y # Undefined /\ x < y
greater(x, y) == x # Undefined /\ y # Undefined /\ x > y

\* equal_to of the functional module
equal_to(x, y) == x = y

\* the comparators given to the algorithms
Compares == {"less", "greater"}
Compare(compare, x, y) ==
    CASE compare = "less" -> less(x, y)
      [] compare = "greater" -> greater(x, y)
      [] compare = "not_less" -> ~less(x, y)
      [] compare = "not_greater" -> ~greater(x, y)

\* heap_compare of make_heap: function (x, y) { return !compare(x, y); }
heap_compare(compare) == IF compare = "less" THEN "not_less" ELSE "not_greater"

\* it.value of a DequeIterator of Deque d
Value(d, it) == Deque_at(d, it.index_).val

\* SWAP; AT(I) WITH AT(J)
Swap_at(d, i, j) ==
    LET supplement == Deque_at(d, i).val
        d1 == Deque_set(d, i, Deque_at(d, j).val).d
    IN Deque_set(d1, j, supplement).d

\* while (compare(container.at(++i), standard)) if (i == last) break;
RECURSIVE Scan_up(_, _, _, _, _)
Scan_up(d, compare, standard, i, lst) ==
    IF Compare(compare, Deque_at(d, i + 1).val, standard) /\ i + 1 # lst
    THEN Scan_up(d, compare, standard, i + 1, lst)
    ELSE i + 1

\* while (compare(standard, container.at(--j))) if (j == first) break;
RECURSIVE Scan_down(_, _, _, _, _)
Scan_down(d, compare, standard, j, first) ==
    IF Compare(compare, standard, Deque_at(d, j - 1).val) /\ j - 1 # first
    THEN Scan_down(d, compare, standard, j - 1, first)
    ELSE j - 1

\* the while (true) loop of qsort_partition
RECURSIVE Partition_loop(_, _, _, _, _, _, _)
Partition_loop(d, compare, standard, first, lst, i, j) ==
    LET i1 == Scan_up(d, compare, standard, i, lst)
        j1 == Scan_down(d, compare, standard, j, first)
    IN IF i1 >= j1 THEN [d |-> d, j |-> j1]
       ELSE Partition_loop(Swap_at(d, i1, j1), compare, standard, first, lst, i1, j1)

qsort_partition(d, first, lst, compare) ==
    LET r == Partition_loop(d, compare, Deque_at(d, first).val, first, lst, first, lst + 1)
    IN [d |-> Swap_at(r.d, first, r.j), index |-> r.j]

\* qsort below the calls that took last == -2 on the Deques of entered: a call
\* with last == -2 nested in the same call on the same Deque never returns,
\* the recursion ends with the engine's RangeError (call stack exceeded)
RECURSIVE qsort_from(_, _, _, _, _)
qsort_from(d, first, lst, compare, entered) ==
    LET l == IF lst = 0 - 2 THEN Deque_size(d) - 1 ELSE lst
        nested == IF lst = 0 - 2 THEN entered \cup {d} ELSE entered
    IN IF lst = 0 - 2 /\ d \in entered THEN [d |-> d, err |-> "RangeError"]
       ELSE IF first >= l THEN [d |-> d, err |-> "none"]
       ELSE LET p == qsort_partition(d, first, l, compare)
                left == qsort_from(p.d, first, p.index - 1, compare, nested)
            IN IF left.err # "none" THEN left
               ELSE qsort_from(left.d, p.index + 1, l, compare, nested)

qsort(d, first, lst, compare) == qsort_from(d, first, lst, compare, {})

\* sort(first, last, compare)
sort(d, first, lst, compare) == qsort(d, first.index_, lst.index_ - 1, compare)

\* is_sorted(first, last, compare): the loop compares with less
RECURSIVE is_sorted_loop(_, _, _, _)
is_sorted_loop(d, first, next, lst) ==
    IF DequeIterator_equals(next, lst) THEN TRUE
    ELSE IF less(Value(d, next), Value(d, first)) THEN FALSE
    ELSE is_sorted_loop(d, DequeIterator_next(first, Deque_size(d)),
                        DequeIterator_next(next, Deque_size(d)), lst)

is_sorted(d, first, lst, compare) ==
    IF DequeIterator_equals(first, lst) THEN TRUE
    ELSE is_sorted_loop(d, first, DequeIterator_next(first, Deque_size(d)), lst)

\* lower_bound(first, last, val, compare)
RECURSIVE lower_bound_loop(_, _, _, _, _)
lower_bound_loop(d, first, count, val, compare) ==
    IF count <= 0 THEN first
    ELSE LET step == count \div 2
             it == DequeIterator_advance(first, step, Deque_size(d))
         IN IF ~Compare(compare, Value(d, it), val)
            THEN lower_bound_loop(d, DequeIterator_next(it, Deque_size(d)),
                                  count - (step + 1), val, compare)
            ELSE lower_bound_loop(d, first, step, val, compare)

lower_bound(d, first, lst, val, compare) ==
    lower_bound_loop(d, first, distance(first, lst), val, compare)

\* binary_search(first, last, val, compare)
binary_search(d, first, lst, val, compare) ==
    LET f == lower_bound(d, first, lst, val, compare)
    IN ~DequeIterator_equals(f, lst) /\ ~Compare(compare, val, Value(d, f))

\* ----------------------------------------------------- algorithm actions
\* the Deques the algorithms are called on
Inputs == UNION {[1 .. n -> Elems] : n \in 0 .. MaxLen}

\* the record of a call of an algorithm
ACall(op, compare, arg, val) == [op |-> op, compare |-> compare, arg |-> arg, val |-> val]

InitAlg ==
    /\ kind = "algorithm"
    /\ data = [c \in Maps |-> NoList]
    /\ hb = [c \in Maps |-> NoBuckets]
    /\ \E s \in Inputs : deq = [c \in Maps |-> IF c = A THEN Deque_new(s) ELSE Deque_clear]
    /\ its = [x |-> NoIt, y |-> NoIt]
    /\ last = ACall("init", "none", Undefined, Undefined)

\* the iterator to position p of A: begin().advance(p)
ItAtPos(p) == DequeIterator_advance(Deque_begin(A, Deque_size(deq[A])), p, Deque_size(deq[A]))

\* the elements of the range [x, y) of A
RangeOf(x, y) ==
    SubSeq(Flatten(deq[A].matrix_), Position(x) + 1, Position(y))

\* the algorithms are called on Deques of elements: a Deque into which a call
\* has written undefined is not given to another call
OfElements(d) ==
    /\ d.below_ = Undefined
    /\ \A i \in 1 .. Len(Flatten(d.matrix_)) : Flatten(d.matrix_)[i] \in Elems

\* s is ordered by the comparator; a and b are equivalent in its ordering
SortedBy(s, compare) == \A i \in 1 .. Len(s) - 1 : ~Compare(compare, s[i + 1], s[i])
Equivalent(compare, a, b) == ~Compare(compare, a, b) /\ ~Compare(compare, b, a)

\* sort(first, last, compare) of the range [f, l) of A; a call that ends with
\* an error is recorded under the error's name
Sort(f, l, compare) ==
    /\ kind = "algorithm" /\ OfElements(deq[A])
    /\ f <= l
    /\ l <= Deque_size(deq[A])
    /\ \E r \in {sort(deq[A], ItAtPos(f), ItAtPos(l), compare)} :
           /\ deq' = [deq EXCEPT ![A] = r.d]
           /\ last' = ACall(IF r.err = "none" THEN "sort" ELSE r.err,
                            compare, Flatten(deq[A].matrix_), Undefined)
    /\ its' = [x |-> ItAtPos(f), y |-> ItAtPos(l)]
    /\ UNCHANGED <<kind, data, hb>>

\* binary_search(first, last, val, compare) of the range [f, l) of A, which
\* is ordered by compare
BinarySearch(f, l, val, compare) ==
    /\ kind = "algorithm" /\ OfElements(deq[A])
    /\ f <= l
    /\ l <= Deque_size(deq[A])
    /\ SortedBy(RangeOf(ItAtPos(f), ItAtPos(l)), compare)
    /\ its' = [x |-> ItAtPos(f), y |-> ItAtPos(l)]
    /\ last' = ACall("binary_search", compare, val,
                     binary_search(deq[A], ItAtPos(f), ItAtPos(l), val, compare))
    /\ UNCHANGED <<kind, data, hb, deq>>

\* C19: after sort(first, last, compare), is_sorted(first, last, compare)
\* returns true, for every range and for every comparator that is a strict
\* weak order.
C19_SortedAfterSort ==
    last.op = "sort" => is_sorted(deq[A], its.x, its.y, last.compare)

\* C20: on a range ordered by compare, binary_search(first, last, val,
\* compare) returns true exactly when the range holds an element equivalent
\* to val.
C20_BinarySearch ==
    last.op = "binary_search"
        => (last.val <=> \E i \in 1 .. Len(RangeOf(its.x, its.y)) :
                            Equivalent(last.compare, RangeOf(its.x, its.y)[i], last.arg))


\* lower_bound(first, last, val, compare) of the range [f, l) of A, which is
\* ordered by compare
LowerBound(f, l, val, compare) ==
    /\ kind = "algorithm" /\ OfElements(deq[A])
    /\ f <= l
    /\ l <= Deque_size(deq[A])
    /\ SortedBy(RangeOf(ItAtPos(f), ItAtPos(l)), compare)
    /\ its' = [x |-> ItAtPos(f), y |-> ItAtPos(l)]
    /\ last' = ACall("lower_bound", compare, val,
                     lower_bound(deq[A], ItAtPos(f), ItAtPos(l), val, compare))
    /\ UNCHANGED <<kind, data, hb, deq>>

\* C21: on a range ordered by compare, lower_bound(first, last, val, compare)
\* returns the first position whose element is not ordered before val, or
\* last if there is none.
C21_LowerBound ==
    last.op = "lower_bound"
        => Position(last.val)
             = Position(its.x)
                 + Cardinality({i \in 1 .. Len(RangeOf(its.x, its.y)) :
                                    Compare(last.compare, RangeOf(its.x, its.y)[i], last.arg)})


\* ------------------------------------------------------- permutations
\* iter_swap(x, y): DequeIterator.swap exchanges the two values
iter_swap(d, x, y) == Swap_at(d, x.index_, y.index_)

\* reverse(first, last) leaving the range as it is
reverse_Skip(d, first, lst) == d

\* reverse(first, last)
RECURSIVE reverse(_, _, _)
reverse(d, first, lst) ==
    IF DequeIterator_equals(first, lst) THEN d
    ELSE LET l == DequeIterator_prev(lst, Deque_size(d))
         IN IF DequeIterator_equals(first, l) THEN d
            ELSE reverse(iter_swap(d, first, l), DequeIterator_next(first, Deque_size(d)), l)

\* while (compare(i.value, y.value) == false) y = y.prev();
RECURSIVE Permutation_y(_, _, _, _)
Permutation_y(d, i, y, compare) ==
    IF Compare(compare, Value(d, i), Value(d, y)) THEN y
    ELSE Permutation_y(d, i, DequeIterator_prev(y, Deque_size(d)), compare)

\* the while (true) loop of next_permutation, entered with i = x
RECURSIVE Permutation_loop(_, _, _, _, _)
Permutation_loop(d, first, lst, x, compare) ==
    LET i == DequeIterator_prev(x, Deque_size(d))
    IN IF Compare(compare, Value(d, i), Value(d, x))
       THEN LET y == Permutation_y(d, i, DequeIterator_prev(lst, Deque_size(d)), compare)
            IN [d |-> reverse(iter_swap(d, i, y), x, lst), val |-> TRUE]
       ELSE IF DequeIterator_equals(i, first)
       THEN [d |-> reverse(d, first, lst), val |-> FALSE]
       ELSE Permutation_loop(d, first, lst, i, compare)

\* next_permutation(first, last, compare)
next_permutation(d, first, lst, compare) ==
    IF DequeIterator_equals(first, lst) THEN [d |-> d, val |-> FALSE]
    ELSE IF DequeIterator_equals(first, DequeIterator_prev(lst, Deque_size(d)))
    THEN [d |-> d, val |-> FALSE]
    ELSE Permutation_loop(d, first, lst, DequeIterator_prev(lst, Deque_size(d)), compare)

\* n!
RECURSIVE Factorial(_)
Factorial(n) == IF n <= 1 THEN 1 ELSE n * Factorial(n - 1)

\* the elements of A, from begin() to end()
Arrangement == Flatten(deq[A].matrix_)

\* next_permutation(begin(), end()) on A. The calls are counted, and the
\* arrangements they leave collected, from a call made on a strictly
\* ascending arrangement up to the call that returns to it.
NextPermutation ==
    /\ kind = "algorithm" /\ OfElements(deq[A])
    /\ LET fresh == last.op # "next_permutation"
                       \/ last.calls >= Factorial(Deque_size(deq[A]))
       IN /\ fresh => \A i \in 1 .. Len(Arrangement) - 1 :
                           less(Arrangement[i], Arrangement[i + 1])
          /\ \E r \in {next_permutation(deq[A], ItAtPos(0), ItAtPos(Deque_size(deq[A])), "less")} :
                /\ deq' = [deq EXCEPT ![A] = r.d]
                /\ last' = [op |-> "next_permutation", val |-> r.val,
                            calls |-> IF fresh THEN 1 ELSE last.calls + 1,
                            seen |-> (IF fresh THEN {} ELSE last.seen)
                                        \cup {Flatten(r.d.matrix_)},
                            elems |-> {Arrangement[i] : i \in 1 .. Len(Arrangement)}]
    /\ its' = [x |-> ItAtPos(0), y |-> ItAtPos(Deque_size(deq[A]))]
    /\ UNCHANGED <<kind, data, hb>>

\* C22: starting from the ascending arrangement of n distinct elements, n!
\* successive next_permutation calls leave n! different arrangements of the
\* same elements; every call but the last returns true, the last returns
\* false and leaves the ascending arrangement.
C22_AllPermutations ==
    last.op = "next_permutation"
        => /\ last.val = (last.calls < Factorial(Len(Arrangement)))
           /\ Cardinality(last.seen) = last.calls
           /\ {Arrangement[i] : i \in 1 .. Len(Arrangement)} = last.elems
           /\ Cardinality(last.elems) = Len(Arrangement)
           /\ ~last.val => \A i \in 1 .. Len(Arrangement) - 1 :
                               Arrangement[i] < Arrangement[i + 1]

\* the last of the 3! calls on three elements was made
C22_Witness ==
    /\ last.op = "next_permutation"
    /\ Len(Arrangement) >= 3
    /\ last.calls = Factorial(Len(Arrangement))
    /\ ~last.val

\* ------------------------------------------------------- adjacent_find
\* the while loop of adjacent_find: first.value is compared with last.value
RECURSIVE adjacent_find_while(_, _, _, _)
adjacent_find_while(d, first, next, lst) ==
    IF DequeIterator_equals(next, lst) THEN lst
    ELSE IF equal_to(Value(d, first), Value(d, lst)) THEN first
    ELSE adjacent_find_while(d, DequeIterator_next(first, Deque_size(d)),
                             DequeIterator_next(next, Deque_size(d)), lst)

\* adjacent_find(first, last, pred)
adjacent_find(d, first, lst, pred) ==
    IF ~DequeIterator_equals(first, lst)
    THEN adjacent_find_while(d, first, DequeIterator_next(first, Deque_size(d)), lst)
    ELSE lst

\* adjacent_find(first, last) of the range [f, l) of A
AdjacentFind(f, l) ==
    /\ kind = "algorithm" /\ OfElements(deq[A])
    /\ f <= l
    /\ l <= Deque_size(deq[A])
    /\ its' = [x |-> ItAtPos(f), y |-> ItAtPos(l)]
    /\ last' = ACall("adjacent_find", "equal_to", Undefined,
                     adjacent_find(deq[A], ItAtPos(f), ItAtPos(l), "equal_to"))
    /\ UNCHANGED <<kind, data, hb, deq>>

\* the i-th element of s and the one after it are equal
Twins(s, i) == i + 1 <= Len(s) /\ s[i] = s[i + 1]

\* C26: adjacent_find(first, last) returns the first position of the range
\* whose element equals the element after it in the range, and last when no
\* two consecutive elements are equal.
C26_AdjacentFind ==
    last.op = "adjacent_find"
        => LET s == RangeOf(its.x, its.y)
               n == Position(last.val) - Position(its.x)
           IN /\ 0 <= n
              /\ n <= Len(s)
              /\ n < Len(s) => Twins(s, n + 1)
              /\ \A i \in 1 .. n : ~Twins(s, i)

\* ------------------------------------------------------------- heaps
\* make_heap(first, last, compare)
make_heap(d, first, lst, compare) == sort(d, first, lst, heap_compare(compare))

\* the for loop of push_heap: less_it, NoIt standing for null
RECURSIVE push_heap_for(_, _, _, _)
push_heap_for(d, it, last_item_it, compare) ==
    IF DequeIterator_equals(it, last_item_it) THEN NoIt
    ELSE IF Compare(compare, Value(d, it), Value(d, last_item_it)) THEN it
    ELSE push_heap_for(d, DequeIterator_next(it, Deque_size(d)), last_item_it, compare)

\* push_heap(first, last, compare)
push_heap(d, first, lst, compare) ==
    LET last_item_it == DequeIterator_prev(lst, Deque_size(d))
        less_it == push_heap_for(d, first, last_item_it, compare)
    IN IF less_it # NoIt
       THEN Deque_erase(first.source_,
                        Deque_insert(first.source_, d, less_it, Value(d, last_item_it)).d,
                        last_item_it).d
       ELSE d

\* pop_heap(first, last, compare)
pop_heap(d, first, lst, compare) ==
    Deque_erase(first.source_, Deque_insert(first.source_, d, lst, Value(d, first)).d, first).d

\* s is in the order of a heap: no element goes before the one it follows
HeapOrder(s, compare) == \A i \in 1 .. Len(s) - 1 : ~Compare(compare, s[i], s[i + 1])

\* s and t hold the same elements, each as many times
Count(s, e) == Cardinality({i \in 1 .. Len(s) : s[i] = e})
SameElements(s, t) == Len(s) = Len(t) /\ \A i \in 1 .. Len(s) : Count(s, s[i]) = Count(t, s[i])

\* make_heap(first, last, compare) of the range [f, l) of A
MakeHeap(f, l, compare) ==
    /\ kind = "algorithm" /\ OfElements(deq[A])
    /\ f <= l
    /\ l <= Deque_size(deq[A])
    /\ \E r \in {make_heap(deq[A], ItAtPos(f), ItAtPos(l), compare)} :
           /\ deq' = [deq EXCEPT ![A] = r.d]
           /\ last' = ACall(IF r.err = "none" THEN "make_heap" ELSE r.err,
                            compare, RangeOf(ItAtPos(f), ItAtPos(l)), Undefined)
    /\ its' = [x |-> ItAtPos(f), y |-> ItAtPos(l)]
    /\ UNCHANGED <<kind, data, hb>>

\* push_heap(first, last, compare) of the range [f, l) of A, [f, l - 1) being
\* a heap
PushHeap(f, l, compare) ==
    /\ kind = "algorithm" /\ OfElements(deq[A])
    /\ f < l
    /\ l <= Deque_size(deq[A])
    /\ HeapOrder(RangeOf(ItAtPos(f), ItAtPos(l - 1)), compare)
    /\ deq' = [deq EXCEPT ![A] = push_heap(deq[A], ItAtPos(f), ItAtPos(l), compare)]
    /\ its' = [x |-> ItAtPos(f), y |-> ItAtPos(l)]
    /\ last' = ACall("push_heap", compare, RangeOf(ItAtPos(f), ItAtPos(l)), Undefined)
    /\ UNCHANGED <<kind, data, hb>>

\* pop_heap(first, last, compare) of the range [f, l) of A, a heap that is
\* not empty
PopHeap(f, l, compare) ==
    /\ kind = "algorithm" /\ OfElements(deq[A])
    /\ f < l
    /\ l <= Deque_size(deq[A])
    /\ HeapOrder(RangeOf(ItAtPos(f), ItAtPos(l)), compare)
    /\ deq' = [deq EXCEPT ![A] = pop_heap(deq[A], ItAtPos(f), ItAtPos(l), compare)]
    /\ its' = [x |-> ItAtPos(f), y |-> ItAtPos(l)]
    /\ last' = ACall("pop_heap", compare, RangeOf(ItAtPos(f), ItAtPos(l)), Undefined)
    /\ UNCHANGED <<kind, data, hb>>

\* C27: when [first, last - 1) is a heap, push_heap(first, last) leaves in
\* [first, last) the elements it held, none lost and none twice, with the
\* greatest at first and the others in the order of a heap.
C27_PushHeap ==
    last.op = "push_heap"
        => /\ SameElements(RangeOf(its.x, its.y), last.arg)
           /\ HeapOrder(RangeOf(its.x, its.y), last.compare)

\* C28: pop_heap on a heap moves its greatest element to last - 1 and leaves
\* in [first, last - 1) a heap of the other elements.
C28_PopHeap ==
    last.op = "pop_heap"
        => LET s == RangeOf(its.x, its.y)
           IN /\ Len(s) = Len(last.arg)
              /\ s[Len(s)] = last.arg[1]
              /\ SameElements(SubSeq(s, 1, Len(s) - 1), Tail(last.arg))
              /\ HeapOrder(SubSeq(s, 1, Len(s) - 1), last.compare)
              /\ Deque_size(deq[A]) = Len(Arrangement)

\* a heap of three elements, not all equal, was popped
C28_Witness ==
    /\ last.op = "pop_heap"
    /\ Len(last.arg) >= 3
    /\ last.arg[1] # last.arg[3]

\* ---------------------------------------------------------- partition
\* the unary predicates given to partition
UnaryPreds == {"odd", "over_one"}
UnaryPred(pred, x) ==
    x # Undefined /\ (IF pred = "odd" THEN x % 2 = 1 ELSE x > 1)

\* while (pred(first.value)) of partition: where first stops, and whether
\* the function returns there
RECURSIVE partition_up(_, _, _, _)
partition_up(d, first, lst, pred) ==
    IF ~UnaryPred(pred, Value(d, first)) THEN [it |-> first, ret |-> FALSE]
    ELSE IF DequeIterator_equals(DequeIterator_next(first, Deque_size(d)), lst)
    THEN [it |-> lst, ret |-> TRUE]
    ELSE partition_up(d, DequeIterator_next(first, Deque_size(d)), lst, pred)

\* do { last = last.prev() ... } while (!pred(last.value)) of partition
RECURSIVE partition_down(_, _, _, _)
partition_down(d, first, lst, pred) ==
    LET l == DequeIterator_prev(lst, Deque_size(d))
    IN IF DequeIterator_equals(first, l) THEN [it |-> first, ret |-> TRUE]
       ELSE IF ~UnaryPred(pred, Value(d, l)) THEN partition_down(d, first, l, pred)
       ELSE [it |-> l, ret |-> FALSE]

\* partition(first, last, pred)
RECURSIVE partition(_, _, _, _)
partition(d, first, lst, pred) ==
    IF DequeIterator_equals(first, lst) THEN [d |-> d, val |-> lst]
    ELSE LET up == partition_up(d, first, lst, pred)
             down == partition_down(d, up.it, lst, pred)
         IN IF up.ret THEN [d |-> d, val |-> up.it]
            ELSE IF down.ret THEN [d |-> d, val |-> down.it]
            ELSE partition(iter_swap(d, up.it, down.it),
                           DequeIterator_next(up.it, Deque_size(d)), down.it, pred)

\* stable_partition(first, last, pred)
stable_partition(d, first, lst, pred) == partition(d, first, lst, pred)

\* stable_partition(first, last, pred) of the range [f, l) of A
StablePartition(f, l, pred) ==
    /\ kind = "algorithm" /\ OfElements(deq[A])
    /\ f <= l
    /\ l <= Deque_size(deq[A])
    /\ \E r \in {stable_partition(deq[A], ItAtPos(f), ItAtPos(l), pred)} :
          /\ deq' = [deq EXCEPT ![A] = r.d]
          /\ last' = ACall("stable_partition", pred, RangeOf(ItAtPos(f), ItAtPos(l)), r.val)
    /\ its' = [x |-> ItAtPos(f), y |-> ItAtPos(l)]
    /\ UNCHANGED <<kind, data, hb>>

\* the elements of s that satisfy the predicate, or that do not, in their order
RECURSIVE Group(_, _, _)
Group(s, pred, sat) ==
    IF s = <<>> THEN <<>>
    ELSE IF UnaryPred(pred, Head(s)) = sat THEN <<Head(s)>> \o Group(Tail(s), pred, sat)
    ELSE Group(Tail(s), pred, sat)

\* C29: stable_partition keeps, inside the elements that satisfy the
\* predicate and inside those that do not, the order the elements had.
C29_StablePartition ==
    last.op = "stable_partition"
        => \A sat \in BOOLEAN :
               Group(RangeOf(its.x, its.y), last.compare, sat) = Group(last.arg, last.compare, sat)

\* ----------------------------------------------------- remove and unique
\* the for loop of remove; it.source().erase(it) is Deque.erase
RECURSIVE remove_for(_, _, _, _, _)
remove_for(d, it, lst, val, ret) ==
    IF DequeIterator_equals(it, lst) THEN [d |-> d, val |-> ret]
    ELSE IF equal_to(Value(d, it), val)
    THEN LET r == Deque_erase(it.source_, d, it) IN remove_for(r.d, r.val, lst, val, ret)
    ELSE remove_for(d, DequeIterator_next(it, Deque_size(d)), lst, val, it)

\* remove(first, last, val)
remove(d, first, lst, val) == remove_for(d, first, lst, val, lst)

\* the for loop of unique
RECURSIVE unique_for(_, _, _, _)
unique_for(d, it, lst, ret) ==
    IF DequeIterator_equals(it, lst) THEN [d |-> d, val |-> ret]
    ELSE IF equal_to(Value(d, it), Value(d, DequeIterator_prev(it, Deque_size(d))))
    THEN LET r == Deque_erase(it.source_, d, it) IN unique_for(r.d, r.val, lst, ret)
    ELSE unique_for(d, DequeIterator_next(it, Deque_size(d)), lst, it)

\* unique(first, last, pred)
unique(d, first, lst, pred) ==
    unique_for(d, DequeIterator_next(first, Deque_size(d)), lst, first)

\* the record of a call that erases from the range [f, end()) of A
ECall(op, arg, val, f) ==
    [op |-> op, compare |-> "equal_to", arg |-> arg, val |-> val,
     before |-> Arrangement, first |-> f]

\* remove(first, last, val) and unique(first, last) of the range [f, end())
\* of A; last is end(), which an erase does not move
Remove(f, val) ==
    /\ kind = "algorithm" /\ OfElements(deq[A])
    /\ f <= Deque_size(deq[A])
    /\ \E r \in {remove(deq[A], ItAtPos(f), Deque_end(A), val)} :
          /\ deq' = [deq EXCEPT ![A] = r.d]
          /\ last' = ECall("remove", val, r.val, f)
    /\ its' = [x |-> NoIt, y |-> NoIt]
    /\ UNCHANGED <<kind, data, hb>>

Unique(f) ==
    /\ kind = "algorithm" /\ OfElements(deq[A])
    /\ f <= Deque_size(deq[A])
    /\ \E r \in {unique(deq[A], ItAtPos(f), Deque_end(A), "equal_to")} :
          /\ deq' = [deq EXCEPT ![A] = r.d]
          /\ last' = ECall("unique", Undefined, r.val, f)
    /\ its' = [x |-> NoIt, y |-> NoIt]
    /\ UNCHANGED <<kind, data, hb>>

\* the elements of s that remove(val) keeps, and those that unique keeps
RECURSIVE Without(_, _)
Without(s, val) ==
    IF s = <<>> THEN <<>>
    ELSE IF Head(s) = val THEN Without(Tail(s), val)
    ELSE <<Head(s)>> \o Without(Tail(s), val)

RECURSIVE Runs(_)
Runs(s) ==
    IF Len(s) <= 1 THEN s
    ELSE IF s[1] = s[2] THEN Runs(Tail(s))
    ELSE <<Head(s)>> \o Runs(Tail(s))

\* C32: remove(first, last, val) and unique(first, last) return the iterator
\* after the last kept element: the kept elements stand, in their order,
\* from first up to the returned iterator, and not further.
C32_RemoveReturnsEnd ==
    last.op \in {"remove", "unique"}
        => LET range == SubSeq(last.before, last.first + 1, Len(last.before))
               kept == IF last.op = "remove" THEN Without(range, last.arg) ELSE Runs(range)
           IN /\ Arrangement = SubSeq(last.before, 1, last.first) \o kept
              /\ Position(last.val) = last.first + Len(kept)

\* -------------------------------------------------------------- rotate
\* the while loop of rotate, next being at middle when it starts
RECURSIVE rotate_while(_, _, _, _, _)
rotate_while(d, first, middle, lst, next) ==
    IF DequeIterator_equals(next, lst) THEN [d |-> d, val |-> first]
    ELSE LET d1 == iter_swap(d, first, next)
             first1 == DequeIterator_next(first, Deque_size(d))
         IN IF DequeIterator_equals(first1, middle) THEN [d |-> d1, val |-> first1]
            ELSE rotate_while(d1, first1, middle, lst, DequeIterator_next(next, Deque_size(d)))

\* rotate(first, middle, last)
rotate(d, first, middle, lst) == rotate_while(d, first, middle, lst, middle)

\* rotate(first, middle, last) of the range [f, l) of A, middle at m
Rotate(f, m, l) ==
    /\ kind = "algorithm" /\ OfElements(deq[A])
    /\ f <= m
    /\ m <= l
    /\ l <= Deque_size(deq[A])
    /\ \E r \in {rotate(deq[A], ItAtPos(f), ItAtPos(m), ItAtPos(l))} :
          /\ deq' = [deq EXCEPT ![A] = r.d]
          /\ last' = [op |-> "rotate", compare |-> "none", val |-> r.val,
                      arg |-> RangeOf(ItAtPos(f), ItAtPos(l)), middle |-> m - f]
    /\ its' = [x |-> ItAtPos(f), y |-> ItAtPos(l)]
    /\ UNCHANGED <<kind, data, hb>>

\* C33: rotate(first, middle, last) leaves in the range what [middle, last)
\* held followed by what [first, middle) held, wherever middle is in the
\* range.
C33_Rotate ==
    last.op = "rotate"
        => RangeOf(its.x, its.y)
             = SubSeq(last.arg, last.middle + 1, Len(last.arg))
                  \o SubSeq(last.arg, 1, last.middle)

\* C36: sort(first, last, compare) only permutes the elements of
\* [first, last): the range holds the same elements as before, each as many
\* times, and the elements outside the range are what they were.
C36_SortFrame ==
    last.op = "sort"
        => /\ Len(Arrangement) = Len(last.arg)
           /\ SameElements(RangeOf(its.x, its.y),
                           SubSeq(last.arg, Position(its.x) + 1, Position(its.y)))
           /\ \A i \in 1 .. Len(last.arg) :
                  (i <= Position(its.x) \/ i > Position(its.y)) => Arrangement[i] = last.arg[i]

\* ------------------------------------------ the algorithms, put together
NextAlg ==
    \/ \E f \in 0 .. MaxLen, l \in 0 .. MaxLen, compare \in Compares : Sort(f, l, compare)
    \/ \E f \in 0 .. MaxLen, l \in 0 .. MaxLen, val \in Elems, compare \in Compares :
           BinarySearch(f, l, val, compare)
    \/ \E f \in 0 .. MaxLen, l \in 0 .. MaxLen, val \in Elems, compare \in Compares :
           LowerBound(f, l, val, compare)
    \/ NextPermutation
    \/ \E f \in 0 .. MaxLen, m \in 0 .. MaxLen, l \in 0 .. MaxLen : Rotate(f, m, l)
    \/ \E f \in 0 .. MaxLen, val \in Elems : Remove(f, val)
    \/ \E f \in 0 .. MaxLen : Unique(f)
    \/ \E f \in 0 .. MaxLen, l \in 0 .. MaxLen : AdjacentFind(f, l)
    \/ \E f \in 0 .. MaxLen, l \in 0 .. MaxLen, pred \in UnaryPreds : StablePartition(f, l, pred)
    \/ \E f \in 0 .. MaxLen, l \in 0 .. MaxLen, compare \in Compares : MakeHeap(f, l, compare)
    \/ \E f \in 0 .. MaxLen, l \in 0 .. MaxLen, compare \in Compares : PushHeap(f, l, compare)
    \/ \E f \in 0 .. MaxLen, l \in 0 .. MaxLen, compare \in Compares : PopHeap(f, l, compare)

SpecAlg == InitAlg /\ [][NextAlg]_vars

\* ------------------------------------------------- algorithms on two ranges
\* Two Deques A and B are read; what an algorithm writes goes to a Deque of
\* its own, which holds a 0 for every element of A and of B beforehand.
Outs == {"union", "intersection", "difference", "difference2"}

\* it.value, it.next() and it.value = val among the Deques D
Iterator_value(D, it) == Deque_at(D[it.source_], it.index_).val
Iterator_next(D, it) == DequeIterator_next(it, Deque_size(D[it.source_]))
Iterator_set(D, it, val) == [D EXCEPT ![it.source_] = Deque_set(@, it.index_, val).d]

\* copy(first, last, result)
RECURSIVE copy(_, _, _, _)
copy(D, first, lst, result) ==
    IF DequeIterator_equals(first, lst) THEN [d |-> D, val |-> result]
    ELSE copy(Iterator_set(D, result, Iterator_value(D, first)),
              Iterator_next(D, first), lst, Iterator_next(D, result))

\* set_union writing nothing
set_union_None(D, first1, last1, first2, last2, result, compare) == [d |-> D, val |-> result]

\* set_union(first1, last1, first2, last2, result, compare)
RECURSIVE set_union(_, _, _, _, _, _, _)
set_union(D, first1, last1, first2, last2, result, compare) ==
    IF DequeIterator_equals(first1, last1) THEN copy(D, first2, last2, result)
    ELSE IF DequeIterator_equals(first2, last2) THEN copy(D, first1, last1, result)
    ELSE IF Compare(compare, Iterator_value(D, first1), Iterator_value(D, first2))
    THEN set_union(Iterator_set(D, result, Iterator_value(D, first1)),
                   Iterator_next(D, first1), last1, first2, last2,
                   Iterator_next(D, result), compare)
    ELSE IF Compare(compare, Iterator_value(D, first2), Iterator_value(D, first1))
    THEN set_union(Iterator_set(D, result, Iterator_value(D, first2)),
                   first1, last1, Iterator_next(D, first2), last2,
                   Iterator_next(D, result), compare)
    ELSE set_union(Iterator_set(D, result, Iterator_value(D, first1)),
                   Iterator_next(D, first1), last1, Iterator_next(D, first2), last2,
                   Iterator_next(D, result), compare)

\* set_intersection(first1, last1, first2, last2, result, compare)
RECURSIVE set_intersection(_, _, _, _, _, _, _)
set_intersection(D, first1, last1, first2, last2, result, compare) ==
    IF DequeIterator_equals(first1, last1) THEN copy(D, first2, last2, result)
    ELSE IF DequeIterator_equals(first2, last2) THEN copy(D, first1, last1, result)
    ELSE IF Compare(compare, Iterator_value(D, first1), Iterator_value(D, first2))
    THEN set_intersection(D, Iterator_next(D, first1), last1, first2, last2, result, compare)
    ELSE IF Compare(compare, Iterator_value(D, first2), Iterator_value(D, first1))
    THEN set_intersection(D, first1, last1, Iterator_next(D, first2), last2, result, compare)
    ELSE set_intersection(Iterator_set(D, result, Iterator_value(D, first1)),
                          Iterator_next(D, first1), last1, Iterator_next(D, first2), last2,
                          Iterator_next(D, result), compare)

\* set_difference(first1, last1, first2, last2, result, compare): the
\* elements are compared by less, whatever compare is
RECURSIVE set_difference(_, _, _, _, _, _, _)
set_difference(D, first1, last1, first2, last2, result, compare) ==
    IF DequeIterator_equals(first1, last1) \/ DequeIterator_equals(first2, last2)
    THEN copy(D, first1, last1, result)
    ELSE IF less(Iterator_value(D, first1), Iterator_value(D, first2))
    THEN set_difference(Iterator_set(D, result, Iterator_value(D, first1)),
                        Iterator_next(D, first1), last1, first2, last2,
                        Iterator_next(D, result), compare)
    ELSE IF less(Iterator_value(D, first2), Iterator_value(D, first1))
    THEN set_difference(D, first1, last1, Iterator_next(D, first2), last2, result, compare)
    ELSE set_difference(D, Iterator_next(D, first1), last1, Iterator_next(D, first2), last2,
                        result, compare)

\* the elements of Deque c from begin() to end(), and as a set
ElementsOf(c) == Flatten(deq[c].matrix_)
SetOf(s) == {s[i] : i \in 1 .. Len(s)}
Ascending(s) == \A i \in 1 .. Len(s) - 1 : s[i] < s[i + 1]

\* the record of a call on two ranges
RCall(op, pred, val) == [op |-> op, pred |-> pred, val |-> val]

InitRanges ==
    /\ kind = "ranges"
    /\ data = [c \in Maps |-> NoList]
    /\ hb = [c \in Maps |-> NoBuckets]
    /\ \E s \in Inputs, t \in Inputs :
          deq = [c \in Maps \cup Outs |->
                    IF c = A THEN Deque_new(s) ELSE IF c = B THEN Deque_new(t) ELSE Deque_clear]
    /\ its = [o \in Outs |-> NoIt]
    /\ last = RCall("init", "none", Undefined)

\* the Deques with a new Deque(size(A) + size(B), 0) to write to as Deque o
WithOutput(o) ==
    [deq EXCEPT ![o] = Deque_new([i \in 1 .. Deque_size(deq[A]) + Deque_size(deq[B]) |-> 0])]

\* one of the set operations on the sorted, duplicate-free ranges
\* [c1.begin(), c1.end()) and [c2.begin(), c2.end()), writing from o.begin()
SetOp(o, c1, c2, r) ==
    /\ kind = "ranges"
    /\ Ascending(ElementsOf(A))
    /\ Ascending(ElementsOf(B))
    /\ deq' = r.d
    /\ its' = [its EXCEPT ![o] = r.val]
    /\ last' = RCall(o, "none", r.val)
    /\ UNCHANGED <<kind, data, hb>>

First(D, c) == Deque_begin(c, Deque_size(D[c]))

SetUnion ==
    \E r \in {set_union(WithOutput("union"), First(deq, A), Deque_end(A), First(deq, B),
                        Deque_end(B), First(WithOutput("union"), "union"), "less")} :
        SetOp("union", A, B, r)

SetIntersection ==
    \E r \in {set_intersection(WithOutput("intersection"), First(deq, A), Deque_end(A),
                               First(deq, B), Deque_end(B),
                               First(WithOutput("intersection"), "intersection"), "less")} :
        SetOp("intersection", A, B, r)

SetDifference(o, c1, c2) ==
    \E r \in {set_difference(WithOutput(o), First(deq, c1), Deque_end(c1), First(deq, c2),
                             Deque_end(c2), First(WithOutput(o), o), "less")} :
        SetOp(o, c1, c2, r)

\* what the operation wrote to its Deque o: the elements before the returned
\* iterator
Written(o) == SubSeq(ElementsOf(o), 1, Position(its[o]))

\* C23: set_union of two sorted, duplicate-free ranges writes the sorted,
\* duplicate-free union of their elements, and returns the iterator after
\* the last element written.
C23_SetUnion ==
    (kind = "ranges" /\ its["union"] # NoIt)
        => /\ Ascending(Written("union"))
           /\ SetOf(Written("union")) = SetOf(ElementsOf(A)) \cup SetOf(ElementsOf(B))
           /\ \A i \in Position(its["union"]) + 1 .. Len(ElementsOf("union")) :
                  ElementsOf("union")[i] = 0

\* both ranges hold an element of their own and share one
C23_Witness ==
    /\ kind = "ranges"
    /\ its["union"] # NoIt
    /\ SetOf(ElementsOf(A)) \ SetOf(ElementsOf(B)) # {}
    /\ SetOf(ElementsOf(B)) \ SetOf(ElementsOf(A)) # {}
    /\ SetOf(ElementsOf(A)) \cap SetOf(ElementsOf(B)) # {}

\* C24: for sorted, duplicate-free A and B, what set_intersection(A, B),
\* set_difference(A, B) and set_difference(B, A) write is pairwise disjoint
\* and holds together the elements of A and B, the intersection being the
\* elements that are in both.
C24_Partition ==
    (kind = "ranges" /\ \A o \in {"intersection", "difference", "difference2"} : its[o] # NoIt)
        => /\ SetOf(Written("intersection")) = SetOf(ElementsOf(A)) \cap SetOf(ElementsOf(B))
           /\ SetOf(Written("difference")) = SetOf(ElementsOf(A)) \ SetOf(ElementsOf(B))
           /\ SetOf(Written("difference2")) = SetOf(ElementsOf(B)) \ SetOf(ElementsOf(A))
           /\ \A o \in {"intersection", "difference", "difference2"} : Ascending(Written(o))

\* ------------------------------------------------- matching two ranges
\* the predicates given to the algorithms: equal_to, and one that takes two
\* numbers of the same parity for a match
Preds == {"equal_to", "same_parity"}
Pred(pred, x, y) ==
    IF pred = "equal_to" THEN equal_to(x, y)
    ELSE x # Undefined /\ y # Undefined /\ x % 2 = y % 2

\* while (equal_to(it1.value, it2.value)) of find_end and search: "found"
\* when it2 reaches last2, "exhausted" when it1 reaches last1, "differ" when
\* the loop ends on its condition
RECURSIVE Match_while(_, _, _, _, _)
Match_while(D, it1, last1, it2, last2) ==
    IF ~equal_to(Iterator_value(D, it1), Iterator_value(D, it2)) THEN "differ"
    ELSE IF DequeIterator_equals(Iterator_next(D, it2), last2) THEN "found"
    ELSE IF DequeIterator_equals(Iterator_next(D, it1), last1) THEN "exhausted"
    ELSE Match_while(D, Iterator_next(D, it1), last1, Iterator_next(D, it2), last2)

\* the for loop of find_end
RECURSIVE find_end_for(_, _, _, _, _, _)
find_end_for(D, first1, last1, first2, last2, ret) ==
    IF DequeIterator_equals(first1, last1) THEN ret
    ELSE LET w == Match_while(D, first1, last1, first2, last2)
         IN IF w = "exhausted" THEN ret
            ELSE find_end_for(D, Iterator_next(D, first1), last1, first2, last2,
                              IF w = "found" THEN first1 ELSE ret)

\* find_end(first1, last1, first2, last2, compare)
find_end(D, first1, last1, first2, last2, compare) ==
    IF DequeIterator_equals(first2, last2) THEN last1
    ELSE find_end_for(D, first1, last1, first2, last2, last1)

\* search(first1, last1, first2, last2, pred)
RECURSIVE search(_, _, _, _, _, _)
search(D, first1, last1, first2, last2, pred) ==
    IF DequeIterator_equals(first2, last2) THEN first1
    ELSE IF DequeIterator_equals(first1, last1) THEN last1
    ELSE LET w == Match_while(D, first1, last1, first2, last2)
         IN IF w = "found" THEN first1
            ELSE IF w = "exhausted" THEN last1
            ELSE search(D, Iterator_next(D, first1), last1, first2, last2, pred)

\* mismatch(first1, last1, first2, compare), the Pair as a tuple
RECURSIVE mismatch(_, _, _, _, _)
mismatch(D, first1, last1, first2, compare) ==
    IF /\ ~DequeIterator_equals(first1, last1)
       /\ ~DequeIterator_equals(first2, Deque_end(first2.source_))
       /\ equal_to(Iterator_value(D, first1), Iterator_value(D, first2))
    THEN mismatch(D, Iterator_next(D, first1), last1, Iterator_next(D, first2), compare)
    ELSE <<first1, first2>>

\* a call on [A.begin(), A.end()) and [B.begin(), B.end()) given a predicate
Matching(op, pred, val) ==
    /\ kind = "ranges"
    /\ last' = RCall(op, pred, val)
    /\ UNCHANGED <<kind, data, hb, deq, its>>

FindEnd(pred) ==
    Matching("find_end", pred,
             find_end(deq, First(deq, A), Deque_end(A), First(deq, B), Deque_end(B), pred))

Search(pred) ==
    Matching("search", pred,
             search(deq, First(deq, A), Deque_end(A), First(deq, B), Deque_end(B), pred))

Mismatch(pred) ==
    Matching("mismatch", pred, mismatch(deq, First(deq, A), Deque_end(A), First(deq, B), pred))

\* B matches A from position p on (counted from 0), by the predicate
MatchesAt(p, pred) ==
    /\ p + Len(ElementsOf(B)) <= Len(ElementsOf(A))
    /\ \A j \in 1 .. Len(ElementsOf(B)) : Pred(pred, ElementsOf(A)[p + j], ElementsOf(B)[j])

\* the first i elements of A and of B match pairwise, by the predicate
MatchUpTo(i, pred) ==
    /\ i <= Len(ElementsOf(A))
    /\ i <= Len(ElementsOf(B))
    /\ \A j \in 1 .. i : Pred(pred, ElementsOf(A)[j], ElementsOf(B)[j])

\* C25: find_end, search and mismatch given a predicate decide by that
\* predicate whether two elements match: search returns the first and
\* find_end the last position of A from which B matches (A.end() when there
\* is none), mismatch the first position where A and B do not match.
C25_PredicateDecides ==
    /\ (kind = "ranges" /\ last.op = "search" /\ ElementsOf(B) # <<>>)
          => /\ Position(last.val) < Len(ElementsOf(A)) => MatchesAt(Position(last.val), last.pred)
             /\ \A p \in 0 .. Position(last.val) - 1 : ~MatchesAt(p, last.pred)
    /\ (kind = "ranges" /\ last.op = "find_end" /\ ElementsOf(B) # <<>>)
          => /\ Position(last.val) < Len(ElementsOf(A)) => MatchesAt(Position(last.val), last.pred)
             /\ \A p \in 0 .. Len(ElementsOf(A)) - 1 :
                    MatchesAt(p, last.pred) => p <= Position(last.val)
                                                /\ Position(last.val) < Len(ElementsOf(A))
    /\ (kind = "ranges" /\ last.op = "mismatch")
          => /\ Position(last.val[1]) = Position(last.val[2])
             /\ MatchUpTo(Position(last.val[1]), last.pred)
             /\ ~MatchUpTo(Position(last.val[1]) + 1, last.pred)

\* ------------------------------------------------- comparing two ranges
\* lexicographical_compare(first1, last1, first2, last2, compare); equal_to
\* of two iterators is their equals
RECURSIVE lexicographical_compare(_, _, _, _, _, _)
lexicographical_compare(D, first1, last1, first2, last2, compare) ==
    IF ~DequeIterator_equals(first1, last1)
    THEN IF \/ DequeIterator_equals(first2, last2)
            \/ ~Compare(compare, Iterator_value(D, first1), Iterator_value(D, first2))
         THEN FALSE
         ELSE IF Compare(compare, Iterator_value(D, first1), Iterator_value(D, first2))
         THEN TRUE
         ELSE lexicographical_compare(D, Iterator_next(D, first1), last1,
                                      Iterator_next(D, first2), last2, compare)
    ELSE /\ ~DequeIterator_equals(last2, Deque_end(last2.source_))
         /\ ~equal_to(Iterator_value(D, first2), Iterator_value(D, last2))

\* includes(first1, last1, first2, last2, compare): what it returns (val),
\* and whether it has read first1.value with first1 at last1 (past)
RECURSIVE includes(_, _, _, _, _, _, _)
includes(D, first1, last1, first2, last2, compare, past) ==
    IF DequeIterator_equals(first2, last2) THEN [val |-> TRUE, past |-> past]
    ELSE IF DequeIterator_equals(first1, last2)
    THEN [val |-> FALSE, past |-> past]
    ELSE IF Compare(compare, Iterator_value(D, first2), Iterator_value(D, first1))
    THEN [val |-> FALSE, past |-> past \/ DequeIterator_equals(first1, last1)]
    ELSE includes(D, Iterator_next(D, first1), last1,
                  IF ~Compare(compare, Iterator_value(D, first1), Iterator_value(D, first2))
                  THEN Iterator_next(D, first2) ELSE first2,
                  last2, compare, past \/ DequeIterator_equals(first1, last1))

LexicographicalCompare ==
    Matching("lexicographical_compare", "less",
             lexicographical_compare(deq, First(deq, A), Deque_end(A), First(deq, B),
                                     Deque_end(B), "less"))

\* includes on the sorted, duplicate-free A and B
Includes ==
    /\ Ascending(ElementsOf(A))
    /\ Ascending(ElementsOf(B))
    /\ Matching("includes", "less",
                includes(deq, First(deq, A), Deque_end(A), First(deq, B), Deque_end(B),
                         "less", FALSE))

\* s is lexicographically less than t
RECURSIVE LexLess(_, _)
LexLess(s, t) ==
    IF t = <<>> THEN FALSE
    ELSE IF s = <<>> THEN TRUE
    ELSE IF Head(s) < Head(t) THEN TRUE
    ELSE IF Head(t) < Head(s) THEN FALSE
    ELSE LexLess(Tail(s), Tail(t))

\* C34: lexicographical_compare returns true exactly when the first range
\* is lexicographically less than the second: its element is the smaller at
\* the first position where they differ, or it is a proper prefix.
C34_LexicographicalCompare ==
    (kind = "ranges" /\ last.op = "lexicographical_compare")
        => last.val = LexLess(ElementsOf(A), ElementsOf(B))

\* C35: includes on sorted ranges returns true exactly when every element
\* of the second range is in the first, and reads no element at or after
\* last1.
C35_Includes ==
    (kind = "ranges" /\ last.op = "includes")
        => /\ last.val.val = (SetOf(ElementsOf(B)) \subseteq SetOf(ElementsOf(A)))
           /\ ~last.val.past

\* ------------------------------------------ the two ranges, put together
NextRanges ==
    \/ SetUnion
    \/ SetIntersection
    \/ SetDifference("difference", A, B)
    \/ SetDifference("difference2", B, A)
    \/ \E pred \in Preds : FindEnd(pred)
    \/ \E pred \in Preds : Search(pred)
    \/ \E pred \in Preds : Mismatch(pred)
    \/ LexicographicalCompare
    \/ Includes

SpecRanges == InitRanges /\ [][NextRanges]_vars
\* ====================================================== Deques of rows
\* A Deque made of elements, and the calls that add and remove elements made
\* on it: a row holds Deque.ROW elements after an insertion in the middle.
MaxFill == 8         \* the Deque is made of at most this many elements
MaxCalls == 3        \* the calls made on one Deque

\* the elements the Deque is made of are 1, 2, ...; the calls add Fresh
Fills == {0, MaxFill - 1, MaxFill}
Fresh == MaxFill + 2

\* reading at(0) .. at(size() - 1)
Read(d) == [i \in 1 .. Deque_size(d) |-> Deque_at(d, i - 1).val]

\* the iterator begin().advance(pos)
PositionAt(d, pos) == IF pos >= Deque_size(d) THEN Deque_end(A) ELSE DequeIterator(A, pos)

\* the record of a call: what was read before it, and the calls made so far
RowsCall(op, pos, val) ==
    [op |-> op, pos |-> pos, val |-> val, before |-> Read(deq[A]), calls |-> last.calls + 1]

InitRows ==
    /\ kind = "rows"
    /\ data = [c \in Maps |-> NoList]
    /\ hb = [c \in Maps |-> NoBuckets]
    /\ \E n \in Fills :
           /\ deq = [c \in Maps |-> IF c = A THEN Deque_new([i \in 1 .. n |-> i])
                                    ELSE Deque_clear]
           /\ last = [op |-> "new", pos |-> 0, val |-> 0, before |-> [i \in 1 .. n |-> i],
                      calls |-> 0]
    /\ its = [x |-> NoIt, y |-> NoIt]

\* a call op on A leaving d; a Deque whose matrix_ holds elements where rows
\* are expected is not called again
RowsDo(op, pos, val, d) ==
    /\ kind = "rows"
    /\ last.calls < MaxCalls
    /\ deq[A].loose_ = 0
    /\ deq' = [deq EXCEPT ![A] = d]
    /\ last' = RowsCall(op, pos, val)
    /\ UNCHANGED <<kind, data, hb, its>>

RowsPushBack == RowsDo("push_back", 0, Fresh, Deque_push_back(deq[A], Fresh))
RowsPushFront == RowsDo("push_front", 0, Fresh, Deque_push_front(deq[A], Fresh))
RowsPopBack == RowsDo("pop_back", 0, 0, Deque_pop_back(deq[A]))
RowsPopFront == RowsDo("pop_front", 0, 0, Deque_pop_front(deq[A]))

\* insert(begin().advance(pos), Fresh); pos = size() gives end()
RowsInsert(pos) ==
    /\ pos <= Deque_size(deq[A])
    /\ RowsDo("insert", pos, Fresh,
            Deque_insert(A, deq[A], PositionAt(deq[A], pos), Fresh).d)

\* erase(begin().advance(pos))
RowsErase(pos) ==
    /\ pos < Deque_size(deq[A])
    /\ RowsDo("erase", pos, 0, Deque_erase(A, deq[A], PositionAt(deq[A], pos)).d)

NextRows ==
    \/ RowsPushBack
    \/ RowsPushFront
    \/ RowsPopBack
    \/ RowsPopFront
    \/ \E pos \in 0 .. MaxFill + MaxCalls : RowsInsert(pos)
    \/ \E pos \in 0 .. MaxFill + MaxCalls : RowsErase(pos)

SpecRows == InitRows /\ [][NextRows]_vars

\* what the last call is expected to leave, from what was read before it
Expected ==
    LET s == last.before
    IN CASE last.op = "push_back" -> Append(s, last.val)
         [] last.op = "push_front" -> <<last.val>> \o s
         [] last.op = "pop_back" -> SubSeq(s, 1, Len(s) - 1)
         [] last.op = "pop_front" -> SubSeq(s, 2, Len(s))
         [] last.op = "insert" -> SubSeq(s, 1, last.pos) \o <<last.val>>
                                      \o SubSeq(s, last.pos + 1, Len(s))
         [] last.op = "erase" -> RemoveAt(s, last.pos + 1)
         [] OTHER -> s

\* C39: after any sequence of push_back, push_front, pop_back, pop_front,
\* insert and erase, size() is the number of stored elements and at(0) ..
\* at(size() - 1) yield the expected sequence: the inserted values at their
\* positions, the other elements in the order they had.
C39_Contents ==
    kind = "rows"
        => /\ Deque_size(deq[A]) = Len(Expected)
           /\ Read(deq[A]) = Expected

====
